---- MODULE Spec2Model ----
(***************************************************************************)
(* Live-editing synchronisation engine of ttyxcvr: the edit planner        *)
(* (diff.go), the op encoder and the replicated document store with the    *)
(* draft/signet correlation of the update loop (main.go).                  *)
(***************************************************************************)
EXTENDS Integers, Sequences, FiniteSets, TLC

VARIABLES
    \* ---- edit planner / op encoder (pure functions under test) ----
    wordA,      \* []uint16 handed to Diff as the old word
    wordB,      \* []uint16 handed to Diff as the new word
    edits,      \* the []Edit returned by Diff
    oldText,    \* *cm.sentmsg before the change (a Go string)
    newText,    \* draft.Value() after the change (a Go string)
    batch,      \* the []*lrcpb.Edit built by sendEditBatch
    applied,    \* text of a replica message after editMessage applied batch
    pc,         \* position of the planner/encoder pipeline
    \* ---- the update loop (model, channelmodel, globalsettingsdata) ----
    state,      \* gsd.state
    mode,       \* cm.mode
    msgs,       \* cm.msgs: id -> *Message (0 is the nil pointer)
    objs,       \* the Message objects allocated so far, by address
    render,     \* cm.render: the rendered-string handles in display order
    myid,       \* cm.myid
    signeturi,  \* cm.signeturi
    sentmsg,    \* cm.sentmsg
    draft,      \* cm.draft.Value()
    xrpc,       \* gsd.xrpc # nil
    cmds,       \* the commands returned by the last call of Update
    echoSeen,   \* history: ids of the echoed Inits handled since the last publish request
    svSeen,     \* history: lrcIds of the signetViews handled since the last publish request
    \* ---- the text primitives of the document store (pure functions under test) ----
    argBase,    \* the text handed to insertAtUTF16Index / deleteBtwnUTF16Indices
    argIndex,   \* the insert index, or the start of the deleted span
    argInsert,  \* the body handed to insertAtUTF16Index
    argEnd,     \* the end of the deleted span
    result,     \* the text returned by the last call
    tpc,        \* which calls have been made
    \* ---- the background tasks of a connection and the command goroutines ----
    rpc,        \* position of startLRCHandlers / listenToConn
    rbuf,       \* listenToConn: the Event e it is about to forward
    rdErrs,     \* failed ReadMessage calls on the document socket so far
    framesRead, \* history: the frames ReadMessage returned, in order
    delivered,  \* history: the events of the lrcEvents model.Update received, in order
    lpc,        \* position of listenToLexConn
    lbuf,       \* listenToLexConn: the SignetView it is about to forward
    wpc,        \* position of LRCWriter
    wbuf,       \* LRCWriter: the payload it received and has not written
    arrived,    \* history: the payloads LRCWriter received from datachan, in order
    loop,       \* the update loop: idle, or inside sendSet at datachan <- data
    loopbuf,    \* the payload the update loop is sending on datachan
    gsdNick,    \* gsd.nick
    procs,      \* the running command goroutines
    spawned,    \* number of command goroutines started so far
    socklog,    \* history: the WriteMessage calls on the document socket, in order
    wrFailed,   \* a WriteMessage on the document socket has failed
    \* ---- the record-creation collaborator (PasswordClient) ----
    accessjwt,  \* c.accessjwt: nil, or the access token held (by generation)
    refreshjwt, \* c.refreshjwt: nil, or the refresh token held (by generation)
    cpc,        \* position of each call of createMyRecord, by call number
    ncalls,     \* calls of createMyRecord started so far
    reqlog,     \* history: the requests the PDS has answered, in order of the answers
    returned,   \* history: the outcome of each call that has returned, in order
    header,     \* c.xrpc.Headers: the Authorization header, nil when never set
    inflight,   \* by call: the Authorization header of its request in flight, or nil
    out,        \* by call: out of RefreshSession, the generation of the tokens returned, or nil
    bearer,     \* by call: the token read for the next Headers.Set, or nil
    \* ---- the frontier of the edit planner (SegmentHeap) ----
    frontier,   \* the SegmentHeap: h.segments and h.searched
    popped,     \* the segment the last PopFront returned
    scripts,    \* history: the scripts the calls of Diff on these words have returned
    \* ---- the record stream as the server produces it ----
    viewsRead,  \* history: the signetView records read from the record stream, in order
    \* ---- the dial commands ----
    dials,      \* the dialingChannel commands started so far, in order
    \* ---- a second client ----
    peerState,  \* gsd.state of the client that receives what this one sends
    \* ---- the way from the splash screen to a channel ----
    nav         \* by command of the way to a channel: idle, running, ok or err (its
                \* message is queued for the update loop), handled

pvars == <<wordA, wordB, edits, oldText, newText, batch, applied, pc>>
evars == <<state, mode, msgs, objs, render, myid, signeturi, sentmsg, draft, xrpc,
           cmds, echoSeen, svSeen>>
tvars == <<argBase, argIndex, argInsert, argEnd, result, tpc>>
cvars == <<rpc, rbuf, rdErrs, framesRead, delivered, lpc, lbuf, wpc, wbuf, arrived,
           loop, loopbuf, gsdNick, procs, spawned, socklog, wrFailed>>
rvars == <<accessjwt, refreshjwt, cpc, ncalls, reqlog, returned, header, inflight, out, bearer>>
hvars == <<frontier, popped, scripts>>
lvars == <<viewsRead, dials, peerState, nav>>
vars == <<pvars, evars, tvars, cvars, rvars, hvars, lvars>>

(***************************************************************************)
(* Bounds                                                                  *)
(***************************************************************************)
MaxLen == 4        \* longest code-unit word handed to Diff
MaxRunes == 2      \* longest text (in runes) handed to the encoder pipeline
MaxObjs == 3       \* Message objects allocated in one run of the update loop
MaxText == 2       \* most code units of text held by the document store
MaxDraft == 2      \* longest draft (in runes) typed into the composer

Units == {97, 98}                  \* code units of the words: 'a', 'b'
Runes == {97, 128512, 128513}      \* runes of the texts: 'a', U+1F600, U+1F601

RECURSIVE SeqsUpTo(_, _)
SeqsUpTo(S, n) ==
    IF n = 0 THEN {<<>>}
    ELSE LET shorter == SeqsUpTo(S, n - 1)
         IN  shorter \cup {Append(s, x) : s \in {t \in shorter : Len(t) = n - 1}, x \in S}

Ids == {2, 5}                      \* message ids on the wire
URIs == {"at://signet/1", "at://signet/2"}   \* signet record URIs
DraftRunes == {97}                 \* runes typed into the draft
Bodies == {<<97>>}                 \* bodies of inbound Insert events
Offsets == {0, 1, 2}               \* UTF-16 offsets of inbound Insert and Delete events
Nicks == {<<>>}                    \* nick of inbound Init events: unset

\* a nil pointer / unset optional field, and a set one
None == <<>>
Some(x) == <<x>>

Words == SeqsUpTo(Units, MaxLen)
Texts == SeqsUpTo(Runes, MaxRunes)

(***************************************************************************)
(* Go strings and unicode/utf16.  A Go string is represented by the        *)
(* sequence of runes that ranging over it yields.                          *)
(***************************************************************************)
RuneError == 65533          \* utf8.RuneError / unicode.ReplacementChar
MaxRune == 1114111          \* unicode.MaxRune
Surr1 == 55296              \* 0xd800
Surr2 == 56320              \* 0xdc00
Surr3 == 57344              \* 0xe000
SurrSelf == 65536           \* 0x10000
Space == 32                 \* ' '

\* a rune that has a UTF-8 encoding: anything else is stored as RuneError
ValidRune(r) ==
    IF (0 <= r /\ r < Surr1) \/ (Surr3 <= r /\ r <= MaxRune) THEN r ELSE RuneError

\* string(runes)
StringOfRunes(rs) == [i \in 1..Len(rs) |-> ValidRune(rs[i])]

\* []rune(s)
RunesOfString(s) == [i \in 1..Len(s) |-> ValidRune(s[i])]

\* utf16.Encode
RECURSIVE Utf16Encode(_)
Utf16Encode(rs) ==
    IF rs = <<>> THEN <<>>
    ELSE LET r == rs[1]
             rest == Utf16Encode(Tail(rs))
         IN  IF (0 <= r /\ r < Surr1) \/ (Surr3 <= r /\ r < SurrSelf)
             THEN <<r>> \o rest
             ELSE IF SurrSelf <= r /\ r <= MaxRune
             THEN <<Surr1 + (((r - SurrSelf) \div 1024) % 1024),
                    Surr2 + ((r - SurrSelf) % 1024)>> \o rest
             ELSE <<RuneError>> \o rest

\* utf16.Decode
RECURSIVE Utf16Decode(_)
Utf16Decode(us) ==
    IF us = <<>> THEN <<>>
    ELSE LET u == us[1]
         IN  IF u < Surr1 \/ Surr3 <= u
             THEN <<u>> \o Utf16Decode(Tail(us))
             ELSE IF Surr1 <= u /\ u < Surr2 /\ Len(us) >= 2
                     /\ Surr2 <= us[2] /\ us[2] < Surr3
             THEN <<((u - Surr1) * 1024 + (us[2] - Surr2)) + SurrSelf>>
                      \o Utf16Decode(Tail(Tail(us)))
             ELSE <<RuneError>> \o Utf16Decode(Tail(us))

\* utf16.Encode([]rune(s))
UnitsOfString(s) == Utf16Encode(RunesOfString(s))

\* string(utf16.Decode(us))
StringOfUnits(us) == StringOfRunes(Utf16Decode(us))

\* strings.Repeat(" ", n)
Spaces(n) == [i \in 1..n |-> Space]

\* s[lo:hi] of a Go slice, 0-based, hi exclusive
Slice(s, lo, hi) == [i \in 1..(hi - lo) |-> s[lo + i]]

(***************************************************************************)
(* diff.go: the edit planner                                               *)
(***************************************************************************)
EditAdd == 0
EditKeep == 1
EditDel == 2
EditNil == 3

\* the nil *EditSegment
NilSegment == [nil |-> TRUE]

\* EditSegment{weight, aidx, bidx, parent}
EditSegment(w, a, b, p) == [nil |-> FALSE, weight |-> w, aidx |-> a, bidx |-> b, parent |-> p]

\* NewSegmentHeap
NewSegmentHeap == [segments |-> <<>>, searched |-> {}]

\* a comparison that prefers, among equal weights, the segment nearer the start
lighter_ShallowFirst(seg, A) ==
    IF seg.weight < A.weight THEN TRUE
    ELSE IF seg.weight > A.weight THEN FALSE
    ELSE seg.aidx + seg.bidx < A.aidx + A.bidx

\* (seg *EditSegment) lighter(A)
lighter(seg, A) ==
    IF seg.weight < A.weight THEN TRUE
    ELSE IF seg.weight > A.weight THEN FALSE
    ELSE seg.aidx + seg.bidx > A.aidx + A.bidx

\* h.segments with the entries at the (0-based) indices i and j exchanged
Swap(segs, i, j) == [segs EXCEPT ![i + 1] = segs[j + 1], ![j + 1] = segs[i + 1]]

\* (h *SegmentHeap) siftUp(idx), on the segment slice
RECURSIVE siftUp(_, _)
siftUp(segs, idx) ==
    IF idx = 0 THEN segs
    ELSE LET upperidx == (idx - 1) \div 2
         IN  IF lighter(segs[idx + 1], segs[upperidx + 1])
             THEN siftUp(Swap(segs, idx, upperidx), upperidx)
             ELSE segs

\* (h *SegmentHeap) siftDown(idx), on the segment slice
RECURSIVE siftDown(_, _)
siftDown(segs, idx) ==
    LET loweridx == idx * 2 + 1
        lower2idx == idx * 2 + 2
    IN  IF loweridx < Len(segs) /\ lighter(segs[loweridx + 1], segs[idx + 1])
        THEN siftDown(Swap(segs, idx, loweridx), loweridx)
        ELSE IF lower2idx < Len(segs) /\ lighter(segs[lower2idx + 1], segs[idx + 1])
        THEN siftDown(Swap(segs, idx, lower2idx), lower2idx)
        ELSE segs

\* an Add that does not consult h.searched
HeapAdd_NoSearchedTest(h, seg) ==
    LET appended == Append(h.segments, seg)
    IN  [segments |-> siftUp(appended, Len(appended) - 1),
         searched |-> h.searched \cup {<<seg.aidx, seg.bidx>>}]

\* (h *SegmentHeap) Add(seg)
HeapAdd(h, seg) ==
    IF <<seg.aidx, seg.bidx>> \in h.searched THEN h
    ELSE LET appended == Append(h.segments, seg)
         IN  [segments |-> siftUp(appended, Len(appended) - 1),
              searched |-> h.searched \cup {<<seg.aidx, seg.bidx>>}]

\* (h *SegmentHeap) PopFront(): the segment returned and the heap left
PopFront(h) ==
    IF Len(h.segments) = 0 THEN [front |-> NilSegment, heap |-> h]
    ELSE IF Len(h.segments) = 1
    THEN [front |-> h.segments[1], heap |-> [h EXCEPT !.segments = <<>>]]
    ELSE LET n == Len(h.segments)
             moved == [i \in 1..(n - 1) |-> IF i = 1 THEN h.segments[n] ELSE h.segments[i]]
         IN  [front |-> h.segments[1], heap |-> [h EXCEPT !.segments = siftDown(moved, 0)]]

\* Expand without the test wordA[aidx] == wordB[bidx] on the diagonal step
Expand_NoMatchTest(A, B, heap, segment) ==
    LET h1 == IF segment.aidx # Len(A) /\ segment.bidx # Len(B)
              THEN HeapAdd(heap, EditSegment(segment.weight, segment.aidx + 1,
                                             segment.bidx + 1, segment))
              ELSE heap
        h2 == IF segment.aidx # Len(A)
              THEN HeapAdd(h1, EditSegment(segment.weight + 1, segment.aidx + 1,
                                           segment.bidx, segment))
              ELSE h1
    IN  IF segment.bidx # Len(B)
        THEN HeapAdd(h2, EditSegment(segment.weight + 1, segment.aidx,
                                     segment.bidx + 1, segment))
        ELSE h2

\* one iteration of the search loop of Diff: the heap after the pushes
Expand(A, B, heap, segment) ==
    LET h1 == IF segment.aidx # Len(A) /\ segment.bidx # Len(B)
                 /\ A[segment.aidx + 1] = B[segment.bidx + 1]
              THEN HeapAdd(heap, EditSegment(segment.weight, segment.aidx + 1,
                                             segment.bidx + 1, segment))
              ELSE heap
        h2 == IF segment.aidx # Len(A)
              THEN HeapAdd(h1, EditSegment(segment.weight + 1, segment.aidx + 1,
                                           segment.bidx, segment))
              ELSE h1
    IN  IF segment.bidx # Len(B)
        THEN HeapAdd(h2, EditSegment(segment.weight + 1, segment.aidx,
                                     segment.bidx + 1, segment))
        ELSE h2

\* the search loop of Diff: the segment popped at (len(wordA), len(wordB)),
\* or NilSegment when PopFront returned nil before it (a nil dereference)
RECURSIVE Search(_, _, _, _)
Search(A, B, heap, segment) ==
    IF segment.nil THEN NilSegment
    ELSE IF segment.aidx = Len(A) /\ segment.bidx = Len(B) THEN segment
    ELSE LET p == PopFront(Expand(A, B, heap, segment))
         IN  Search(A, B, p.heap, p.front)

\* Edit{EditType, Utf16Text}
Edit(et, text) == [EditType |-> et, Utf16Text |-> text]

\* a backtracking loop that starts a new run for every unit
RECURSIVE Backtrack_NoMerge(_, _, _, _, _)
Backtrack_NoMerge(A, B, segment, acc, currentEdit) ==
    LET prevSegment == segment.parent
    IN  IF prevSegment.nil THEN <<currentEdit>> \o acc
        ELSE LET diffA == prevSegment.aidx # segment.aidx
                 diffB == prevSegment.bidx # segment.bidx
                 et == IF diffA /\ diffB THEN EditKeep
                       ELSE IF diffA THEN EditDel
                       ELSE IF diffB THEN EditAdd
                       ELSE EditNil
                 char == IF diffA THEN A[prevSegment.aidx + 1]
                         ELSE IF diffB THEN B[prevSegment.bidx + 1]
                         ELSE 0
             IN  Backtrack_NoMerge(A, B, prevSegment,
                                   IF currentEdit.EditType # EditNil
                                   THEN <<currentEdit>> \o acc ELSE acc,
                                   Edit(et, <<char>>))

\* a backtracking loop that appends each unit to the run instead of prepending it
RECURSIVE Backtrack_PayloadReversed(_, _, _, _, _)
Backtrack_PayloadReversed(A, B, segment, acc, currentEdit) ==
    LET prevSegment == segment.parent
    IN  IF prevSegment.nil THEN <<currentEdit>> \o acc
        ELSE LET diffA == prevSegment.aidx # segment.aidx
                 diffB == prevSegment.bidx # segment.bidx
                 et == IF diffA /\ diffB THEN EditKeep
                       ELSE IF diffA THEN EditDel
                       ELSE IF diffB THEN EditAdd
                       ELSE EditNil
                 char == IF diffA THEN A[prevSegment.aidx + 1]
                         ELSE IF diffB THEN B[prevSegment.bidx + 1]
                         ELSE 0
             IN  IF currentEdit.EditType # et
                 THEN Backtrack_PayloadReversed(A, B, prevSegment,
                                IF currentEdit.EditType # EditNil
                                THEN <<currentEdit>> \o acc ELSE acc,
                                Edit(et, <<char>>))
                 ELSE Backtrack_PayloadReversed(A, B, prevSegment, acc,
                                Edit(et, currentEdit.Utf16Text \o <<char>>))

\* the backtracking loop of Diff
RECURSIVE Backtrack(_, _, _, _, _)
Backtrack(A, B, segment, acc, currentEdit) ==
    LET prevSegment == segment.parent
    IN  IF prevSegment.nil THEN <<currentEdit>> \o acc
        ELSE LET diffA == prevSegment.aidx # segment.aidx
                 diffB == prevSegment.bidx # segment.bidx
                 et == IF diffA /\ diffB THEN EditKeep
                       ELSE IF diffA THEN EditDel
                       ELSE IF diffB THEN EditAdd
                       ELSE EditNil
                 char == IF diffA THEN A[prevSegment.aidx + 1]
                         ELSE IF diffB THEN B[prevSegment.bidx + 1]
                         ELSE 0
             IN  IF currentEdit.EditType # et
                 THEN Backtrack(A, B, prevSegment,
                                IF currentEdit.EditType # EditNil
                                THEN <<currentEdit>> \o acc ELSE acc,
                                Edit(et, <<char>>))
                 ELSE Backtrack(A, B, prevSegment, acc,
                                Edit(et, <<char>> \o currentEdit.Utf16Text))

\* the segment at which the search loop of Diff ends
Terminal(A, B) ==
    LET head == EditSegment(0, 0, 0, NilSegment)
        first == PopFront(HeapAdd(NewSegmentHeap, head))
    IN  Search(A, B, first.heap, first.front)

\* Diff dereferences a nil segment (PopFront returned nil inside the loop)
DiffPanics(A, B) == Terminal(A, B).nil

\* Diff(wordA, wordB)
Diff(A, B) == Backtrack(A, B, Terminal(A, B), <<>>, Edit(EditNil, <<>>))

(***************************************************************************)
(* main.go: text primitives of the document store                          *)
(***************************************************************************)
\* insertAtUTF16Index(base, index, insert)
insertAtUTF16Index(base, index, insert) ==
    LET units0 == UnitsOfString(base)
        padded == IF Len(units0) < index
                  THEN UnitsOfString(base \o Spaces(index - Len(units0)))
                  ELSE units0
        insertUTF16Units == UnitsOfString(insert)
    IN  StringOfUnits(Slice(padded, 0, index) \o insertUTF16Units
                          \o Slice(padded, index, Len(padded)))

\* deleteBtwnUTF16Indices(base, start, end)
deleteBtwnUTF16Indices(base, start, end) ==
    IF end <= start THEN base
    ELSE LET baseUTF16Units == UnitsOfString(base)
             end2 == IF Len(baseUTF16Units) < end THEN Len(baseUTF16Units) ELSE end
         IN  IF Len(baseUTF16Units) < start THEN base
             ELSE StringOfUnits(Slice(baseUTF16Units, 0, start)
                                    \o Slice(baseUTF16Units, end2, Len(baseUTF16Units)))

(***************************************************************************)
(* main.go: the op encoder                                                 *)
(***************************************************************************)
\* makeInsert(body, idx).GetInsert(): the Id field is unset
makeInsert(body, idx) == [kind |-> "Insert", Id |-> None, Body |-> body, Utf16Index |-> idx]

\* makeDelete(start, end).GetDelete(): the Id field is unset
makeDelete(start, end) ==
    [kind |-> "Delete", Id |-> None, Utf16Start |-> start, Utf16End |-> end]

\* the loop of sendEditBatch over edits[k..], with the cursor idx; idx is a
\* sum of slice lengths, so that uint32(idx) is idx
RECURSIVE EncodeFrom(_, _, _)
EncodeFrom(es, k, idx) ==
    IF k > Len(es) THEN <<>>
    ELSE LET edit == es[k]
             n == Len(edit.Utf16Text)
         IN  IF edit.EditType = EditDel
             THEN <<makeDelete(idx, idx + n)>> \o EncodeFrom(es, k + 1, idx)
             ELSE IF edit.EditType = EditKeep
             THEN EncodeFrom(es, k + 1, idx + n)
             ELSE IF edit.EditType = EditAdd
             THEN <<makeInsert(StringOfUnits(edit.Utf16Text), idx)>>
                      \o EncodeFrom(es, k + 1, idx + n)
             ELSE EncodeFrom(es, k + 1, idx)

\* sendEditBatch(datachan, edits): the batch marshalled into the event
sendEditBatch(es) == EncodeFrom(es, 1, 0)

\* the effect of one sub-op of an edit batch on a message text
ApplyEdit(text, e) ==
    IF e.kind = "Insert" THEN insertAtUTF16Index(text, e.Utf16Index, e.Body)
    ELSE deleteBtwnUTF16Indices(text, e.Utf16Start, e.Utf16End)

\* editMessage(id, edits, ...): the text of message id after the sub-ops
RECURSIVE ApplyEdits(_, _)
ApplyEdits(text, es) ==
    IF es = <<>> THEN text ELSE ApplyEdits(ApplyEdit(text, es[1]), Tail(es))

(***************************************************************************)
(* main.go: the document store.  A store is [msgs, objs, render]; every    *)
(* operation returns the store with the flag err (a non-nil error).        *)
(***************************************************************************)
\* &Message{...}: forId records the key the object was created under
Message(id, nick) == [forId |-> id, nick |-> nick, active |-> TRUE, text |-> <<>>]

Store(m, o, r) == [err |-> FALSE, msgs |-> m, objs |-> o, render |-> r]
Failed(S) == [S EXCEPT !.err = TRUE]

\* initMessage that reuses the Message of an id it has seen, text and all
initMessage_KeepsSeen(msg, S) ==
    IF msg.Id = None THEN Failed(S)
    ELSE LET h == Len(S.objs) + 1
             m == S.msgs[msg.Id[1]]
         IN  IF m # 0
             THEN Store(S.msgs,
                        [S.objs EXCEPT ![m].active = TRUE, ![m].nick = msg.Nick],
                        S.render)
             ELSE Store([S.msgs EXCEPT ![msg.Id[1]] = h],
                        Append(S.objs, Message(msg.Id[1], msg.Nick)),
                        Append(S.render, h))

\* initMessage(msg, msgmap, renders, width)
initMessage(msg, S) ==
    IF msg.Id = None THEN Failed(S)
    ELSE LET h == Len(S.objs) + 1
         IN  Store([S.msgs EXCEPT ![msg.Id[1]] = h],
                   Append(S.objs, Message(msg.Id[1], msg.Nick)),
                   Append(S.render, h))

\* pubMessage that creates a stub for an id it has not seen
pubMessage_CreatesStub(msg, S) ==
    IF msg.Id = None THEN Failed(S)
    ELSE LET m == S.msgs[msg.Id[1]]
             h == Len(S.objs) + 1
         IN  IF m # 0
             THEN Store(S.msgs, [S.objs EXCEPT ![m].active = FALSE], S.render)
             ELSE Store([S.msgs EXCEPT ![msg.Id[1]] = h],
                        Append(S.objs, [Message(msg.Id[1], None) EXCEPT !.active = FALSE]),
                        Append(S.render, h))

\* pubMessage(msg, msgmap, width)
pubMessage(msg, S) ==
    IF msg.Id = None THEN Failed(S)
    ELSE LET m == S.msgs[msg.Id[1]]
         IN  IF m # 0
             THEN Store(S.msgs, [S.objs EXCEPT ![m].active = FALSE], S.render)
             ELSE Store(S.msgs, S.objs, S.render)

\* insertMessage that puts the handle of a new message first in the render list
insertMessage_Prepends(msg, S) ==
    IF msg.Id = None THEN Failed(S)
    ELSE LET id == msg.Id[1]
             atr == S.msgs[id] = 0
             m == IF atr THEN Len(S.objs) + 1 ELSE S.msgs[id]
             objs1 == IF atr THEN Append(S.objs, Message(id, None)) ELSE S.objs
             text == insertAtUTF16Index(objs1[m].text, msg.Utf16Index, msg.Body)
         IN  Store([S.msgs EXCEPT ![id] = m],
                   [objs1 EXCEPT ![m].text = text],
                   IF atr THEN <<m>> \o S.render ELSE S.render)

\* insertMessage(msg, msgmap, renders, width)
insertMessage(msg, S) ==
    IF msg.Id = None THEN Failed(S)
    ELSE LET id == msg.Id[1]
             atr == S.msgs[id] = 0
             m == IF atr THEN Len(S.objs) + 1 ELSE S.msgs[id]
             objs1 == IF atr THEN Append(S.objs, Message(id, None)) ELSE S.objs
             text == insertAtUTF16Index(objs1[m].text, msg.Utf16Index, msg.Body)
         IN  Store([S.msgs EXCEPT ![id] = m],
                   [objs1 EXCEPT ![m].text = text],
                   IF atr THEN Append(S.render, m) ELSE S.render)

\* deleteMessage(msg, msgmap, renders, width)
deleteMessage(msg, S) ==
    IF msg.Id = None THEN Failed(S)
    ELSE LET id == msg.Id[1]
             atr == S.msgs[id] = 0
             m == IF atr THEN Len(S.objs) + 1 ELSE S.msgs[id]
             objs1 == IF atr THEN Append(S.objs, Message(id, None)) ELSE S.objs
             text == deleteBtwnUTF16Indices(objs1[m].text, msg.Utf16Start, msg.Utf16End)
         IN  Store([S.msgs EXCEPT ![id] = m],
                   [objs1 EXCEPT ![m].text = text],
                   IF atr THEN Append(S.render, m) ELSE S.render)

\* editMessage that overrides the id of a sub-op only when the sub-op has none
RECURSIVE editMessage_KeepsSubIds(_, _, _)
editMessage_KeepsSubIds(id, es, S) ==
    IF es = <<>> THEN S
    ELSE LET e == IF es[1].Id = None THEN [es[1] EXCEPT !.Id = Some(id)] ELSE es[1]
             S1 == IF e.kind = "Insert" THEN insertMessage(e, S)
                   ELSE IF e.kind = "Delete" THEN deleteMessage(e, S)
                   ELSE S
         IN  IF S1.err THEN S1 ELSE editMessage_KeepsSubIds(id, Tail(es), S1)

\* editMessage(id, edits, msgmap, renders, width)
RECURSIVE editMessage(_, _, _)
editMessage(id, es, S) ==
    IF es = <<>> THEN S
    ELSE LET e == [es[1] EXCEPT !.Id = Some(id)]
             S1 == IF e.kind = "Insert" THEN insertMessage(e, S)
                   ELSE IF e.kind = "Delete" THEN deleteMessage(e, S)
                   ELSE S
         IN  IF S1.err THEN S1 ELSE editMessage(id, Tail(es), S1)

(***************************************************************************)
(* main.go: the update loop.  One action per message handled by            *)
(* model.Update while a channel model exists; cmds is the set of commands  *)
(* the call returns (tea.Batch; focus and blink commands are left out).    *)
(***************************************************************************)
\* the commands
CmdSendPub == [cmd |-> "sendPub"]
CmdCreateMSG(uri, body) == [cmd |-> "createMSGCmd", SignetURI |-> uri, Body |-> body]
CmdSendInsert(body, idx, init) ==
    [cmd |-> "sendInsert", Body |-> body, Utf16Index |-> idx, Init |-> init]
CmdSendEditBatch(es) == [cmd |-> "sendEditBatch", Edits |-> sendEditBatch(es)]

\* updateConnectingToChannel: the channel model right after construction
InitEngine ==
    /\ state = "Connected"
    /\ mode = "Normal"
    /\ msgs = [i \in Ids |-> 0]
    /\ objs = <<>>
    /\ render = <<>>
    /\ myid = None
    /\ signeturi = None
    /\ sentmsg = None
    /\ draft = <<>>
    /\ xrpc = FALSE
    /\ cmds = {}
    /\ echoSeen = {}
    /\ svSeen = {}

\* the inbound document events: Event{Id, Msg}
InitEvents ==
    {[Id |-> None, Msg |-> [kind |-> "Init", Id |-> i, Nick |-> n, Echoed |-> e]] :
        i \in {None} \cup {Some(x) : x \in Ids},
        n \in Nicks,
        e \in {None, Some(TRUE), Some(FALSE)}}
PubEvents ==
    {[Id |-> None, Msg |-> [kind |-> "Pub", Id |-> i]] :
        i \in {None} \cup {Some(x) : x \in Ids}}
InsertMsgs ==
    {[kind |-> "Insert", Id |-> i, Body |-> b, Utf16Index |-> k] :
        i \in {None} \cup {Some(x) : x \in Ids}, b \in Bodies, k \in Offsets}
DeleteMsgs ==
    {[kind |-> "Delete", Id |-> i, Utf16Start |-> a, Utf16End |-> b] :
        i \in {None} \cup {Some(x) : x \in Ids}, a \in Offsets, b \in Offsets}
InsertEvents == {[Id |-> None, Msg |-> m] : m \in InsertMsgs}
DeleteEvents == {[Id |-> None, Msg |-> m] : m \in DeleteMsgs}
\* edit batches as sendEditBatch builds them (no sub-op id): one Insert, or
\* the Delete of the first unit followed by an Insert
BatchEvents ==
    {[Id |-> i, Msg |-> [kind |-> "Editbatch", Edits |-> es]] :
        i \in {None} \cup {Some(x) : x \in Ids},
        es \in {<<a>> : a \in {m \in InsertMsgs : m.Id = None}}
               \cup {<<makeDelete(0, 1), a>> : a \in {m \in InsertMsgs : m.Id = None}}}
\* the events of the document store: the Inits of other authors (not echoed)
StoreEvents ==
    {e \in InitEvents : e.Msg.Echoed = None}
        \cup PubEvents \cup InsertEvents \cup DeleteEvents \cup BatchEvents
\* the Inits the server sends for the messages of the channel, the local one echoed
EchoEvents == InitEvents

\* the store the handler of the lrcEvent e leaves (updateConnected, case lrcEvent)
ApplyEvent(e, S) ==
    IF e.Msg.kind = "Init" THEN initMessage(e.Msg, S)
    ELSE IF e.Msg.kind = "Pub" THEN pubMessage(e.Msg, S)
    ELSE IF e.Msg.kind = "Insert" THEN insertMessage(e.Msg, S)
    ELSE IF e.Msg.kind = "Delete" THEN deleteMessage(e.Msg, S)
    ELSE IF e.Msg.kind = "Editbatch"
    THEN IF e.Id = None THEN S ELSE editMessage(e.Id[1], e.Msg.Edits, S)
    ELSE S

\* the store stays within the bounds of the model: code units of text held
RECURSIVE TextUnits(_, _)
TextUnits(os, h) ==
    IF h = 0 THEN 0 ELSE Len(UnitsOfString(os[h].text)) + TextUnits(os, h - 1)

WithinBounds(S) ==
    /\ Len(S.objs) <= MaxObjs
    /\ TextUnits(S.objs, Len(S.objs)) <= MaxText

\* an Insert-mode tail that sends the batch but keeps the old synced text
InsertTail_KeepsSynced(nv) ==
    IF sentmsg = None /\ nv # <<>>
    THEN [sentmsg |-> Some(nv), cmds |-> {CmdSendInsert(nv, 0, TRUE)}]
    ELSE IF sentmsg # None /\ sentmsg[1] # nv
    THEN [sentmsg |-> sentmsg,
          cmds |-> {CmdSendEditBatch(Diff(UnitsOfString(sentmsg[1]), UnitsOfString(nv)))}]
    ELSE [sentmsg |-> sentmsg, cmds |-> {}]

\* the tail of updateConnected in Insert mode (594-612), nv being the value of
\* the draft after draft.Update(msg): the new sentmsg and the commands
InsertTail(nv) ==
    IF sentmsg = None /\ nv # <<>>
    THEN [sentmsg |-> Some(nv), cmds |-> {CmdSendInsert(nv, 0, TRUE)}]
    ELSE IF sentmsg # None /\ sentmsg[1] # nv
    THEN [sentmsg |-> Some(nv),
          cmds |-> {CmdSendEditBatch(Diff(UnitsOfString(sentmsg[1]), UnitsOfString(nv)))}]
    ELSE [sentmsg |-> sentmsg, cmds |-> {}]

\* an Event whose Msg is nil (the zero value of lrcpb.Event)
ZeroEvent == [Id |-> None, Msg |-> [kind |-> "None"]]

\* a handler that takes every Init for the echo of the local message
HandleLrcEvent_AnyInitIsEcho(e) ==
    /\ state = "Connected"
    /\ LET S1 == ApplyEvent(e, Store(msgs, objs, render))
           echo == e.Msg.kind = "Init"
       IN  /\ WithinBounds(S1)
           /\ msgs' = S1.msgs
           /\ objs' = S1.objs
           /\ render' = S1.render
           /\ state' = IF S1.err THEN "Error" ELSE state
           /\ myid' = IF ~S1.err /\ echo THEN e.Msg.Id ELSE myid
           /\ echoSeen' = IF ~S1.err /\ echo THEN echoSeen \cup {e.Msg.Id[1]} ELSE echoSeen
    /\ IF e.Msg.kind = "None" /\ mode = "Insert"
       THEN sentmsg' = InsertTail(draft).sentmsg /\ cmds' = InsertTail(draft).cmds
       ELSE sentmsg' = sentmsg /\ cmds' = {}
    /\ UNCHANGED <<mode, signeturi, draft, xrpc, svSeen>>

\* model.Update, case Connected, lrcEvent: the fields of the model.  An event
\* whose Msg is nil matches no case and reaches the dispatch on cm.mode (589).
HandleLrcEvent(e) ==
    /\ state = "Connected"
    /\ LET S1 == ApplyEvent(e, Store(msgs, objs, render))
           echo == e.Msg.kind = "Init" /\ e.Msg.Echoed = Some(TRUE)
       IN  /\ WithinBounds(S1)
           /\ msgs' = S1.msgs
           /\ objs' = S1.objs
           /\ render' = S1.render
           /\ state' = IF S1.err THEN "Error" ELSE state
           /\ myid' = IF ~S1.err /\ echo THEN e.Msg.Id ELSE myid
           /\ echoSeen' = IF ~S1.err /\ echo THEN echoSeen \cup {e.Msg.Id[1]} ELSE echoSeen
    /\ IF e.Msg.kind = "None" /\ mode = "Insert"
       THEN sentmsg' = InsertTail(draft).sentmsg /\ cmds' = InsertTail(draft).cmds
       ELSE sentmsg' = sentmsg /\ cmds' = {}
    /\ UNCHANGED <<mode, signeturi, draft, xrpc, svSeen>>

LrcEvent(e) == HandleLrcEvent(e) /\ UNCHANGED <<pvars, tvars, cvars, rvars, hvars, lvars>>

\* model.Update, case errMsg (sent by a background task or a failed command):
\* the fields of the model
HandleErrMsg ==
    /\ state' = "Error"
    /\ cmds' = {}
    /\ UNCHANGED <<mode, msgs, objs, render, myid, signeturi, sentmsg, draft, xrpc,
                   echoSeen, svSeen>>

ErrMsg == HandleErrMsg /\ UNCHANGED <<pvars, tvars, cvars, rvars, hvars, lvars>>

\* model.Update, case loggedInMsg
HandleLoggedInMsg ==
    /\ xrpc' = TRUE
    /\ cmds' = {}
    /\ UNCHANGED <<state, mode, msgs, objs, render, myid, signeturi, sentmsg, draft,
                   echoSeen, svSeen>>

LoggedInMsg == HandleLoggedInMsg /\ UNCHANGED <<pvars, tvars, cvars, rvars, hvars, lvars>>

\* model.Update, case svMsg
HandleSvMsg(sv) ==
    /\ IF myid # None /\ sv.LrcId = myid[1]
       THEN /\ signeturi' = Some(sv.URI)
            /\ cmds' = {}
            /\ UNCHANGED sentmsg
       ELSE \* falls through to the dispatch on gsd.state
            /\ signeturi' = signeturi
            /\ IF state = "Connected" /\ mode = "Insert"
               THEN sentmsg' = InsertTail(draft).sentmsg /\ cmds' = InsertTail(draft).cmds
               ELSE sentmsg' = sentmsg /\ cmds' = {}
    /\ svSeen' = IF state = "Connected" THEN svSeen \cup {sv.LrcId} ELSE svSeen
    /\ UNCHANGED <<state, mode, msgs, objs, render, myid, draft, xrpc, echoSeen>>

SvMsg(sv) == HandleSvMsg(sv) /\ UNCHANGED <<pvars, tvars, cvars, rvars, hvars, lvars>>

\* updateConnected, tea.KeyMsg in Normal mode: "i", "a", "I", "A"
HandleKeyInsertMode ==
    /\ state = "Connected"
    /\ mode = "Normal"
    /\ mode' = "Insert"
    /\ cmds' = {}
    /\ UNCHANGED <<state, msgs, objs, render, myid, signeturi, sentmsg, draft, xrpc,
                   echoSeen, svSeen>>

KeyInsertMode == HandleKeyInsertMode /\ UNCHANGED <<pvars, tvars, cvars, rvars, hvars, lvars>>

\* updateConnected, tea.KeyMsg in Insert mode: "esc"
KeyEsc ==
    /\ state = "Connected"
    /\ mode = "Insert"
    /\ mode' = "Normal"
    /\ cmds' = {}
    /\ UNCHANGED <<state, msgs, objs, render, myid, signeturi, sentmsg, draft, xrpc,
                   echoSeen, svSeen>>
    /\ UNCHANGED <<pvars, tvars, cvars, rvars, hvars, lvars>>

\* the values draft.Update(msg) can leave for a key: a rune typed or deleted
\* at the cursor, or the value as it was (cursor movement)
KeyEdits(v) ==
    {v}
    \cup {Slice(v, 0, i) \o <<r>> \o Slice(v, i, Len(v)) :
            i \in (IF Len(v) < MaxDraft THEN 0..Len(v) ELSE {}), r \in DraftRunes}
    \cup {Slice(v, 0, i - 1) \o Slice(v, i, Len(v)) : i \in 1..Len(v)}

\* updateConnected, tea.KeyMsg in Insert mode: a key handled by the draft
HandleKeyType(nv) ==
    /\ state = "Connected"
    /\ mode = "Insert"
    /\ nv \in KeyEdits(draft)
    /\ draft' = nv
    /\ sentmsg' = InsertTail(nv).sentmsg
    /\ cmds' = InsertTail(nv).cmds
    /\ UNCHANGED <<state, mode, msgs, objs, render, myid, signeturi, xrpc,
                   echoSeen, svSeen>>

KeyType(nv) == HandleKeyType(nv) /\ UNCHANGED <<pvars, tvars, cvars, rvars, hvars, lvars>>

\* the enter handler that resets myid but leaves signeturi set after a publish
EnterResult_KeepsSignet ==
    IF sentmsg # None
    THEN IF xrpc /\ signeturi # None
         THEN [draft |-> <<>>, sentmsg |-> None, myid |-> None, signeturi |-> signeturi,
               cmds |-> {CmdSendPub, CmdCreateMSG(signeturi[1], sentmsg[1])}]
         ELSE [draft |-> <<>>, sentmsg |-> None, myid |-> myid, signeturi |-> signeturi,
               cmds |-> {CmdSendPub}]
    ELSE [draft |-> draft, sentmsg |-> sentmsg, myid |-> myid, signeturi |-> signeturi,
          cmds |-> {}]

\* an enter handler that drops sentmsg but leaves the draft as it is
EnterResult_KeepsDraft ==
    IF sentmsg # None
    THEN IF xrpc /\ signeturi # None
         THEN [draft |-> draft, sentmsg |-> None, myid |-> None, signeturi |-> None,
               cmds |-> {CmdSendPub, CmdCreateMSG(signeturi[1], sentmsg[1])}]
         ELSE [draft |-> draft, sentmsg |-> None, myid |-> myid, signeturi |-> signeturi,
               cmds |-> {CmdSendPub}]
    ELSE [draft |-> draft, sentmsg |-> sentmsg, myid |-> myid, signeturi |-> signeturi,
          cmds |-> {}]

\* updateConnected, Insert mode, case "enter" (560-585): the composer fields
\* and the commands the handler leaves
EnterResult ==
    IF sentmsg # None
    THEN IF xrpc /\ signeturi # None
         THEN [draft |-> <<>>, sentmsg |-> None, myid |-> None, signeturi |-> None,
               cmds |-> {CmdSendPub, CmdCreateMSG(signeturi[1], sentmsg[1])}]
         ELSE [draft |-> <<>>, sentmsg |-> None, myid |-> myid, signeturi |-> signeturi,
               cmds |-> {CmdSendPub}]
    ELSE [draft |-> draft, sentmsg |-> sentmsg, myid |-> myid, signeturi |-> signeturi,
          cmds |-> {}]

\* updateConnected, tea.KeyMsg in Insert mode: "enter"
HandleKeyEnter ==
    /\ state = "Connected"
    /\ mode = "Insert"
    /\ draft' = EnterResult.draft
    /\ sentmsg' = EnterResult.sentmsg
    /\ myid' = EnterResult.myid
    /\ signeturi' = EnterResult.signeturi
    /\ cmds' = EnterResult.cmds
    /\ echoSeen' = IF sentmsg # None THEN {} ELSE echoSeen
    /\ svSeen' = IF sentmsg # None THEN {} ELSE svSeen
    /\ UNCHANGED <<state, mode, msgs, objs, render, xrpc>>

KeyEnter == HandleKeyEnter /\ UNCHANGED <<pvars, tvars, cvars, rvars, hvars, lvars>>

\* the pipeline variables while the update loop runs
IdlePipeline ==
    /\ wordA = <<>>
    /\ wordB = <<>>
    /\ edits = <<>>
    /\ oldText = <<>>
    /\ newText = <<>>
    /\ batch = <<>>
    /\ applied = <<>>
    /\ pc = "idle"

\* initialModel 207: nick := "wanderer"
Wanderer == <<119, 97, 110, 100, 101, 114, 101, 114>>

\* updateConnectingToChannel 955-960: the tasks just started, datachan made
InitTasks ==
    /\ rpc = "set"
    /\ rbuf = ZeroEvent
    /\ rdErrs = 0
    /\ framesRead = <<>>
    /\ delivered = <<>>
    /\ lpc = "read"
    /\ lbuf = None
    /\ wpc = "recv"
    /\ wbuf = None
    /\ arrived = <<>>
    /\ loop = "idle"
    /\ loopbuf = None
    /\ gsdNick = Some(Wanderer)
    /\ procs = {}
    /\ spawned = 0
    /\ socklog = <<>>
    /\ wrFailed = FALSE

\* NewPasswordClient 1522-1527: no session yet, no call made
InitClient ==
    /\ accessjwt = None
    /\ cpc = <<>>
    /\ ncalls = 0
    /\ reqlog = <<>>
    /\ returned = <<>>
    /\ header = None
    /\ refreshjwt = None
    /\ inflight = <<>>
    /\ out = <<>>
    /\ bearer = <<>>

\* NewSegmentHeap 41-45: nothing held, nothing searched, nothing popped
InitHeap ==
    /\ frontier = NewSegmentHeap
    /\ popped = NilSegment
    /\ scripts = <<>>

\* the commands of the way from the splash screen to a channel
NavCmds == {"GetChannels", "ResolveChannel", "connectToChannel"}

\* the record stream of a connection just made: nothing read; no dial
\* command started, no command of the way to a channel
InitViews ==
    /\ viewsRead = <<>>
    /\ dials = <<>>
    /\ peerState = "Connected"
    /\ nav = [c \in NavCmds |-> "idle"]

\* the text-primitive variables while another part runs
IdleText ==
    /\ argBase = <<>>
    /\ argIndex = 0
    /\ argInsert = <<>>
    /\ argEnd = 0
    /\ result = <<>>
    /\ tpc = "idle"

(***************************************************************************)
(* The composer: keys, login, signetViews and the Inits of the channel.    *)
(***************************************************************************)
Init ==
    /\ InitEngine /\ IdlePipeline /\ IdleText /\ InitTasks /\ InitClient /\ InitHeap
    /\ InitViews

Next ==
    \/ \E e \in EchoEvents : LrcEvent(e)
    \/ \E sv \in [LrcId : Ids, URI : URIs] : SvMsg(sv)
    \/ LoggedInMsg
    \/ KeyInsertMode
    \/ KeyEsc
    \/ \E nv \in SeqsUpTo(DraftRunes, MaxDraft) : KeyType(nv)
    \/ KeyEnter
    \/ ErrMsg

Spec == Init /\ [][Next]_vars

(***************************************************************************)
(* The document store: every inbound document event.                       *)
(***************************************************************************)
NextStore ==
    \/ \E e \in StoreEvents : LrcEvent(e)
    \/ ErrMsg

SpecStore == Init /\ [][NextStore]_vars

(***************************************************************************)
(* The document store under Inits that carry a nick or none, with the Pub  *)
(* and Insert events that put a message in each of its states, and under   *)
(* edit batches whose sub-ops carry an id of their own.                    *)
(***************************************************************************)
\* the nick of an Init: unset, or "n"
InitNicks == {None, Some(<<110>>)}

\* edit batches with an outer id whose first sub-op carries another id: an
\* Insert, or a Delete of the first unit followed by an Insert without id
SubIdOps(i) ==
    {<<a>> : a \in {m \in InsertMsgs : m.Utf16Index = 0 /\ m.Id \notin {None, Some(i)}}}
        \cup {<<d, makeInsert(<<97>>, 0)>> :
                 d \in {m \in DeleteMsgs : /\ m.Utf16Start = 0 /\ m.Utf16End = 1
                                           /\ m.Id \notin {None, Some(i)}}}

SubIdBatches ==
    UNION {{[Id |-> Some(i), Msg |-> [kind |-> "Editbatch", Edits |-> es]] :
               es \in SubIdOps(i)} : i \in Ids}

\* text enters the store through the batches only
InitStoreEvents ==
    {[Id |-> None, Msg |-> [kind |-> "Init", Id |-> Some(i), Nick |-> n, Echoed |-> None]] :
        i \in Ids, n \in InitNicks}
        \cup {e \in PubEvents : e.Msg.Id # None}
        \cup SubIdBatches

NextInits == \E e \in InitStoreEvents : LrcEvent(e)

SpecInits == Init /\ [][NextInits]_vars

(***************************************************************************)
(* The inbound side of a connection: document events of every kind, the    *)
(* Inits echoed or not, and the signetView records of the record stream.   *)
(***************************************************************************)
\* Inits with and without id, echoed or not; Pubs; and an Insert, a Delete and
\* a single-Insert batch at the front of the text, without id and for one id
InboundEvents ==
    InitEvents
        \cup PubEvents
        \cup {e \in InsertEvents : e.Msg.Utf16Index = 0 /\ e.Msg.Id # Some(5)}
        \cup {e \in DeleteEvents : /\ e.Msg.Utf16Start = 0 /\ e.Msg.Utf16End = 1
                                   /\ e.Msg.Id # Some(5)}
        \cup {e \in BatchEvents : /\ Len(e.Msg.Edits) = 1 /\ e.Msg.Edits[1].Utf16Index = 0
                                  /\ e.Id # Some(5)}

\* the signetView records of the record stream, one per id
InboundViews == {[LrcId |-> i, URI |-> "at://signet/1"] : i \in Ids}

NextInbound ==
    \/ \E e \in InboundEvents : LrcEvent(e)
    \/ \E sv \in InboundViews : SvMsg(sv)

SpecInbound == Init /\ [][NextInbound]_vars

(***************************************************************************)
(* The planner on arbitrary words: Init draws wordA and wordB, RunDiff     *)
(* calls Diff.                                                             *)
(***************************************************************************)
InitDiff ==
    /\ wordA \in Words
    /\ wordB \in Words
    /\ edits = <<>>
    /\ oldText = <<>>
    /\ newText = <<>>
    /\ batch = <<>>
    /\ applied = <<>>
    /\ pc = "start"
    /\ InitEngine
    /\ IdleText
    /\ InitTasks
    /\ InitClient
    /\ InitHeap
    /\ InitViews

RunDiff ==
    /\ pc = "start"
    /\ IF DiffPanics(wordA, wordB)
       THEN pc' = "panic" /\ edits' = edits
       ELSE pc' = "planned" /\ edits' = Diff(wordA, wordB)
    /\ UNCHANGED <<wordA, wordB, oldText, newText, batch, applied>>
    /\ UNCHANGED <<evars, tvars, cvars, rvars, hvars, lvars>>

NextDiff == RunDiff

SpecDiff == InitDiff /\ [][NextDiff]_vars

(***************************************************************************)
(* The local edit pipeline of updateConnected (Insert mode) on a text      *)
(* change, and a replica applying the batch: Init draws the old and the    *)
(* new text.                                                               *)
(***************************************************************************)
InitEdit ==
    /\ oldText \in Texts
    /\ newText \in Texts
    /\ wordA = <<>>
    /\ wordB = <<>>
    /\ edits = <<>>
    /\ batch = <<>>
    /\ applied = oldText
    /\ pc = "start"
    /\ InitEngine
    /\ IdleText
    /\ InitTasks
    /\ InitClient
    /\ InitHeap
    /\ InitViews

\* main.go 603-605: encode both texts and plan the edit
PlanEdit ==
    /\ pc = "start"
    /\ wordA' = UnitsOfString(oldText)
    /\ wordB' = UnitsOfString(newText)
    /\ IF DiffPanics(UnitsOfString(oldText), UnitsOfString(newText))
       THEN pc' = "panic" /\ edits' = edits
       ELSE pc' = "planned"
            /\ edits' = Diff(UnitsOfString(oldText), UnitsOfString(newText))
    /\ UNCHANGED <<oldText, newText, batch, applied>>
    /\ UNCHANGED <<evars, tvars, cvars, rvars, hvars, lvars>>

\* main.go 609: sendEditBatch builds the batch from the plan
EncodeEdit ==
    /\ pc = "planned"
    /\ batch' = sendEditBatch(edits)
    /\ pc' = "encoded"
    /\ UNCHANGED <<wordA, wordB, edits, oldText, newText, applied>>
    /\ UNCHANGED <<evars, tvars, cvars, rvars, hvars, lvars>>

\* a replica holding the old text applies the batch (editMessage)
ReplicaApply ==
    /\ pc = "encoded"
    /\ applied' = ApplyEdits(applied, batch)
    /\ pc' = "applied"
    /\ UNCHANGED <<wordA, wordB, edits, oldText, newText, batch>>
    /\ UNCHANGED <<evars, tvars, cvars, rvars, hvars, lvars>>

NextEdit == PlanEdit \/ EncodeEdit \/ ReplicaApply

SpecEdit == InitEdit /\ [][NextEdit]_vars

(***************************************************************************)
(* The same pipeline on the words of the documented scenarios and on the   *)
(* short words over 'a' and 'b'.                                           *)
(***************************************************************************)
Hello == <<104, 101, 108, 108, 111>>
Hallo == <<104, 97, 108, 108, 111>>
Hi == <<104, 105>>

ScenarioTexts == {Hello, Hallo, Hi} \cup SeqsUpTo({97, 98}, MaxRunes)

InitScenario ==
    /\ oldText \in ScenarioTexts
    /\ newText \in ScenarioTexts
    /\ wordA = <<>>
    /\ wordB = <<>>
    /\ edits = <<>>
    /\ batch = <<>>
    /\ applied = oldText
    /\ pc = "start"
    /\ InitEngine
    /\ IdleText
    /\ InitTasks
    /\ InitClient
    /\ InitHeap
    /\ InitViews

SpecScenario == InitScenario /\ [][NextEdit]_vars

(***************************************************************************)
(* The text primitives on arbitrary arguments: Init draws the text, the    *)
(* offsets and the body; the actions call the primitives.                  *)
(***************************************************************************)
MaxBase == 2       \* longest text (in runes) handed to the text primitives
MaxBody == 1       \* longest body (in runes) handed to insertAtUTF16Index
MaxOffset == 5     \* largest offset handed to the text primitives

InitText ==
    /\ argBase \in SeqsUpTo(Runes, MaxBase)
    /\ argIndex \in 0..MaxOffset
    /\ argInsert \in SeqsUpTo(Runes, MaxBody)
    /\ argEnd \in 0..MaxOffset
    /\ result = <<>>
    /\ tpc = "start"
    /\ InitEngine
    /\ IdlePipeline
    /\ InitTasks
    /\ InitClient
    /\ InitHeap
    /\ InitViews

\* insertMessage 851-853: m.text = insertAtUTF16Index(m.text, idx, body)
CallInsert ==
    /\ tpc = "start"
    /\ result' = insertAtUTF16Index(argBase, argIndex, argInsert)
    /\ tpc' = "inserted"
    /\ UNCHANGED <<argBase, argIndex, argInsert, argEnd>>
    /\ UNCHANGED <<pvars, evars, cvars, rvars, hvars, lvars>>

\* deleteMessage 778-780: m.text = deleteBtwnUTF16Indices(m.text, start, end)
CallDelete ==
    /\ tpc = "start"
    /\ result' = deleteBtwnUTF16Indices(argBase, argIndex, argEnd)
    /\ tpc' = "deleted"
    /\ UNCHANGED <<argBase, argIndex, argInsert, argEnd>>
    /\ UNCHANGED <<pvars, evars, cvars, rvars, hvars, lvars>>

\* deleteMessage on the text CallInsert left, for the span the body was put in
CallDeleteInserted ==
    /\ tpc = "inserted"
    /\ result' = deleteBtwnUTF16Indices(result, argIndex,
                                         argIndex + Len(UnitsOfString(argInsert)))
    /\ tpc' = "restored"
    /\ UNCHANGED <<argBase, argIndex, argInsert, argEnd>>
    /\ UNCHANGED <<pvars, evars, cvars, rvars, hvars, lvars>>

NextText == CallInsert \/ CallDelete \/ CallDeleteInserted

SpecText == InitText /\ [][NextText]_vars

(***************************************************************************)
(* A connection: the goroutines started by updateConnectingToChannel       *)
(* (startLRCHandlers / listenToConn, listenToLexConn, LRCWriter), the      *)
(* command goroutines of the composer and the update loop they send to.    *)
(* send (p.Send) and the delivery of a command's result hand the message   *)
(* to the update loop, which runs model.Update on it: a task can deliver   *)
(* only while the update loop is not inside a call of Update.              *)
(***************************************************************************)
MaxFrames == 2     \* frames read from the document socket in one run
MaxReadErrs == 2   \* failed reads of the document socket in one run
MaxSets == 1       \* setMsg commands in one run
MaxCmds == 2       \* command goroutines started in one run

\* a binary frame of the document socket: ok is whether proto.Unmarshal accepts it
Frame(e) == [ok |-> TRUE, e |-> e]
Garbage == [ok |-> FALSE, e |-> ZeroEvent]

\* proto.Unmarshal(data, &e) in listenToConn: the error is dropped and e keeps
\* what was decoded; nothing is taken to be decoded from a rejected frame
Unmarshal(f) == IF f.ok THEN f.e ELSE ZeroEvent

\* the frames the server sends on the document socket: an echoed Init, a Pub
\* without id, an edit batch without id, and a frame that does not decode
DocFrames ==
    {Frame([Id |-> None,
            Msg |-> [kind |-> "Init", Id |-> Some(2), Nick |-> None, Echoed |-> Some(TRUE)]]),
     Frame([Id |-> None, Msg |-> [kind |-> "Pub", Id |-> None]]),
     Frame([Id |-> None, Msg |-> [kind |-> "Editbatch", Edits |-> <<makeInsert(<<97>>, 0)>>]]),
     Garbage}

\* the signetView records the server sends on the identity socket
LexRecords == {[LrcId |-> 2, URI |-> "at://signet/1"]}

\* the values of the nick in a setMsg
SetNicks == {<<120>>}

\* the outbound events as they are marshalled
SetEvent(n) == [Id |-> None, Msg |-> [kind |-> "Set", Nick |-> n]]
GetEvent == [Id |-> None, Msg |-> [kind |-> "Get"]]
InitEvent == [Id |-> None, Msg |-> [kind |-> "Init", Id |-> None, Nick |-> None, Echoed |-> None]]
InsertEvent(body, idx) == [Id |-> None, Msg |-> makeInsert(body, idx)]
PubEvent == [Id |-> None, Msg |-> [kind |-> "Pub", Id |-> None]]
BatchEvent(es) == [Id |-> None, Msg |-> [kind |-> "Editbatch", Edits |-> es]]

\* the goroutines that write on the document socket: a task, a command goroutine
Task(name) == [task |-> name, n |-> 0]
Goroutine(n) == [task |-> "cmd", n |-> n]

\* conn.WriteMessage by the goroutine by: the call as it is logged
WriteCall(by, data, ok) == [by |-> by, data |-> data, ok |-> ok]

\* the outcomes of a WriteMessage: a failed socket keeps failing
WriteOutcomes == IF wrFailed THEN {FALSE} ELSE {TRUE, FALSE}

\* a sendInsert goroutine that skips the Init
Spawn_SkipsInit(c, n) ==
    [n |-> n, cmd |-> c,
     pc |-> IF c.cmd = "sendEditBatch" THEN "send"
            ELSE IF c.cmd = "sendPub" THEN "pub"
            ELSE IF c.cmd = "createMSGCmd" THEN "create"
            ELSE "insert"]

\* the goroutine tea starts for a command returned by Update, at its first
\* statement that other goroutines can see: sendEditBatch at datachan <- data
\* (652), sendInsert at the write of its Init (693) or of its Insert (703),
\* sendPub at its write (665), createMSGCmd at the call of CreateXCVRMessage
\* (619)
Spawn(c, n) ==
    [n |-> n, cmd |-> c,
     pc |-> IF c.cmd = "sendEditBatch" THEN "send"
            ELSE IF c.cmd = "sendPub" THEN "pub"
            ELSE IF c.cmd = "createMSGCmd" THEN "create"
            ELSE IF c.cmd = "sendInsert" /\ c.Init THEN "init"
            ELSE "insert"]

\* the place of the command c among the commands cs of one tea.Batch (579):
\* sendPub before createMSGCmd
CmdRank(c, cs) ==
    IF c.cmd = "createMSGCmd" /\ CmdSendPub \in cs THEN 2 ELSE 1

\* tea starts one goroutine for each of the commands cs
StartAll(cs) ==
    /\ procs' = procs \cup {Spawn(c, spawned + CmdRank(c, cs)) : c \in cs}
    /\ spawned' = spawned + Cardinality(cs)

\* the call of Update that has just set cmds' starts its commands
StartCmds ==
    /\ spawned + Cardinality(cmds') <= MaxCmds
    /\ StartAll(cmds')

\* model.Update on a message that no case handles in the current state
UpdateIgnores ==
    /\ cmds' = {}
    /\ UNCHANGED <<state, mode, msgs, objs, render, myid, signeturi, sentmsg, draft, xrpc,
                   echoSeen, svSeen>>

\* m.gsd.nick as the go statement of startLRCHandlers evaluates it (955): the
\* nick initialModel gives (207), no setMsg having come before the connect
ConnectNick == Some(Wanderer)

\* a startLRCHandlers that starts the reader right after the Set
HandlersWriteSet_StartsReader ==
    /\ rpc = "set"
    /\ \E ok \in WriteOutcomes :
          /\ socklog' = Append(socklog, WriteCall(Task("handlers"), SetEvent(ConnectNick), ok))
          /\ wrFailed' = (wrFailed \/ ~ok)
    /\ rpc' = "read"
    /\ UNCHANGED <<rbuf, rdErrs, framesRead, delivered, lpc, lbuf, wpc, wbuf, arrived,
                   loop, loopbuf, gsdNick, procs, spawned>>
    /\ UNCHANGED <<pvars, evars, tvars, rvars, hvars, lvars>>

\* startLRCHandlers 1029-1035: write Set with the identity the goroutine was
\* started with, the error dropped
HandlersWriteSet ==
    /\ rpc = "set"
    /\ \E ok \in WriteOutcomes :
          /\ socklog' = Append(socklog, WriteCall(Task("handlers"), SetEvent(ConnectNick), ok))
          /\ wrFailed' = (wrFailed \/ ~ok)
    /\ rpc' = "get"
    /\ UNCHANGED <<rbuf, rdErrs, framesRead, delivered, lpc, lbuf, wpc, wbuf, arrived,
                   loop, loopbuf, gsdNick, procs, spawned>>
    /\ UNCHANGED <<pvars, evars, tvars, rvars, hvars, lvars>>

\* startLRCHandlers 1037-1045: write Get, the error dropped, go listenToConn
HandlersWriteGet ==
    /\ rpc = "get"
    /\ \E ok \in WriteOutcomes :
          /\ socklog' = Append(socklog, WriteCall(Task("handlers"), GetEvent, ok))
          /\ wrFailed' = (wrFailed \/ ~ok)
    /\ rpc' = "read"
    /\ UNCHANGED <<rbuf, rdErrs, framesRead, delivered, lpc, lbuf, wpc, wbuf, arrived,
                   loop, loopbuf, gsdNick, procs, spawned>>
    /\ UNCHANGED <<pvars, evars, tvars, rvars, hvars, lvars>>

\* listenToConn 1095, 1099-1100: ReadMessage returns the frame f, Unmarshal
ReaderRead(f) ==
    /\ rpc = "read"
    /\ rdErrs = 0
    /\ Len(framesRead) < MaxFrames
    /\ framesRead' = Append(framesRead, f)
    /\ rbuf' = Unmarshal(f)
    /\ rpc' = "sendEvt"
    /\ UNCHANGED <<rdErrs, delivered, lpc, lbuf, wpc, wbuf, arrived, loop, loopbuf, gsdNick,
                   procs, spawned, socklog, wrFailed>>
    /\ UNCHANGED <<pvars, evars, tvars, rvars, hvars, lvars>>

\* listenToConn 1095-1096: ReadMessage returns an error (and keeps returning it)
ReaderReadFails ==
    /\ rpc = "read"
    /\ rdErrs < MaxReadErrs
    /\ rdErrs' = rdErrs + 1
    /\ rpc' = "sendErr"
    /\ UNCHANGED <<rbuf, framesRead, delivered, lpc, lbuf, wpc, wbuf, arrived, loop, loopbuf,
                   gsdNick, procs, spawned, socklog, wrFailed>>
    /\ UNCHANGED <<pvars, evars, tvars, rvars, hvars, lvars>>

\* listenToConn 1097-1100: send(errMsg{err}), then Unmarshal of the nil data
ReaderSendErr ==
    /\ rpc = "sendErr"
    /\ loop = "idle"
    /\ HandleErrMsg
    /\ rbuf' = ZeroEvent
    /\ rpc' = "sendEvt"
    /\ UNCHANGED <<rdErrs, framesRead, delivered, lpc, lbuf, wpc, wbuf, arrived, loop,
                   loopbuf, gsdNick, procs, spawned, socklog, wrFailed>>
    /\ UNCHANGED <<pvars, tvars, rvars, hvars, lvars>>

\* listenToConn 1101: send(lrcEvent{&e}), and model.Update on it
ReaderSendEvt ==
    /\ rpc = "sendEvt"
    /\ loop = "idle"
    /\ delivered' = Append(delivered, rbuf)
    /\ IF state = "Connected" THEN HandleLrcEvent(rbuf) ELSE UpdateIgnores
    /\ StartCmds
    /\ rpc' = "read"
    /\ UNCHANGED <<rbuf, rdErrs, framesRead, lpc, lbuf, wpc, wbuf, arrived, loop, loopbuf,
                   gsdNick, socklog, wrFailed>>
    /\ UNCHANGED <<pvars, tvars, rvars, hvars, lvars>>

\* listenToLexConn 1055-1073: ReadJSON returns the signetView record sv
LexRead(sv) ==
    /\ lpc = "read"
    /\ lbuf' = Some(sv)
    /\ lpc' = "sendSv"
    /\ UNCHANGED <<rpc, rbuf, rdErrs, framesRead, delivered, wpc, wbuf, arrived, loop,
                   loopbuf, gsdNick, procs, spawned, socklog, wrFailed>>
    /\ UNCHANGED <<pvars, evars, tvars, rvars, hvars, lvars>>

\* listenToLexConn 1055-1072: ReadJSON or json.Unmarshal returns an error
LexReadFails ==
    /\ lpc = "read"
    /\ lpc' = "sendErr"
    /\ UNCHANGED <<rpc, rbuf, rdErrs, framesRead, delivered, lbuf, wpc, wbuf, arrived, loop,
                   loopbuf, gsdNick, procs, spawned, socklog, wrFailed>>
    /\ UNCHANGED <<pvars, evars, tvars, rvars, hvars, lvars>>

\* listenToLexConn 1074: send(svMsg{&sv}), and model.Update on it
LexSendSv ==
    /\ lpc = "sendSv"
    /\ loop = "idle"
    /\ HandleSvMsg(lbuf[1])
    /\ StartCmds
    /\ lbuf' = None
    /\ lpc' = "read"
    /\ UNCHANGED <<rpc, rbuf, rdErrs, framesRead, delivered, wpc, wbuf, arrived, loop,
                   loopbuf, gsdNick, socklog, wrFailed>>
    /\ UNCHANGED <<pvars, tvars, rvars, hvars, lvars>>

\* listenToLexConn 1057-1058: send(errMsg{err}); return
LexSendErr ==
    /\ lpc = "sendErr"
    /\ loop = "idle"
    /\ HandleErrMsg
    /\ lpc' = "done"
    /\ UNCHANGED <<rpc, rbuf, rdErrs, framesRead, delivered, lbuf, wpc, wbuf, arrived, loop,
                   loopbuf, gsdNick, procs, spawned, socklog, wrFailed>>
    /\ UNCHANGED <<pvars, tvars, rvars, hvars, lvars>>

\* model.Update, case setMsg "nick=..." (384-391): updateLRCIdentity calls
\* sendSet, which reaches datachan <- data inside the call of Update
SetMsg(v) ==
    /\ loop = "idle"
    /\ Cardinality({i \in 1..Len(arrived) : arrived[i].Msg.kind = "Set"}) < MaxSets
    /\ gsdNick' = Some(v)
    /\ loop' = "sendSet"
    /\ loopbuf' = Some(SetEvent(Some(v)))
    /\ UNCHANGED <<rpc, rbuf, rdErrs, framesRead, delivered, lpc, lbuf, wpc, wbuf, arrived,
                   procs, spawned, socklog, wrFailed>>
    /\ UNCHANGED <<pvars, evars, tvars, rvars, hvars, lvars>>

\* LRCWriter 992 receives what sendSet 1019 sends; sendSet returns and
\* model.Update returns m, nil
WriterRecvSet ==
    /\ wpc = "recv"
    /\ loop = "sendSet"
    /\ wbuf' = loopbuf
    /\ arrived' = Append(arrived, loopbuf[1])
    /\ wpc' = "write"
    /\ loop' = "idle"
    /\ loopbuf' = None
    /\ cmds' = {}
    /\ UNCHANGED <<state, mode, msgs, objs, render, myid, signeturi, sentmsg, draft, xrpc,
                   echoSeen, svSeen>>
    /\ UNCHANGED <<rpc, rbuf, rdErrs, framesRead, delivered, lpc, lbuf, gsdNick, procs,
                   spawned, socklog, wrFailed>>
    /\ UNCHANGED <<pvars, tvars, rvars, hvars, lvars>>

\* LRCWriter 992 receives what the sendEditBatch goroutine p sends (652)
WriterRecvCmd(p) ==
    /\ wpc = "recv"
    /\ p \in procs
    /\ p.pc = "send"
    /\ wbuf' = Some(BatchEvent(p.cmd.Edits))
    /\ arrived' = Append(arrived, BatchEvent(p.cmd.Edits))
    /\ wpc' = "write"
    /\ procs' = procs \ {p}
    /\ UNCHANGED <<rpc, rbuf, rdErrs, framesRead, delivered, lpc, lbuf, loop, loopbuf,
                   gsdNick, spawned, socklog, wrFailed>>
    /\ UNCHANGED <<pvars, evars, tvars, rvars, hvars, lvars>>

\* a writer that goes back to the channel after a failed write
WriterWrite_KeepsGoing ==
    /\ wpc = "write"
    /\ \E ok \in WriteOutcomes :
          /\ socklog' = Append(socklog, WriteCall(Task("writer"), wbuf[1], ok))
          /\ wrFailed' = (wrFailed \/ ~ok)
          /\ wpc' = "recv"
    /\ wbuf' = None
    /\ UNCHANGED <<rpc, rbuf, rdErrs, framesRead, delivered, lpc, lbuf, arrived, loop,
                   loopbuf, gsdNick, procs, spawned>>
    /\ UNCHANGED <<pvars, evars, tvars, rvars, hvars, lvars>>

\* LRCWriter 993-997: WriteMessage; on an error the writer goes on to report it
WriterWrite ==
    /\ wpc = "write"
    /\ \E ok \in WriteOutcomes :
          /\ socklog' = Append(socklog, WriteCall(Task("writer"), wbuf[1], ok))
          /\ wrFailed' = (wrFailed \/ ~ok)
          /\ wpc' = IF ok THEN "recv" ELSE "sendErr"
    /\ wbuf' = None
    /\ UNCHANGED <<rpc, rbuf, rdErrs, framesRead, delivered, lpc, lbuf, arrived, loop,
                   loopbuf, gsdNick, procs, spawned>>
    /\ UNCHANGED <<pvars, evars, tvars, rvars, hvars, lvars>>

\* LRCWriter 995-996: send(errMsg{err}); return
WriterSendErr ==
    /\ wpc = "sendErr"
    /\ loop = "idle"
    /\ HandleErrMsg
    /\ wpc' = "done"
    /\ UNCHANGED <<rpc, rbuf, rdErrs, framesRead, delivered, lpc, lbuf, wbuf, arrived, loop,
                   loopbuf, gsdNick, procs, spawned, socklog, wrFailed>>
    /\ UNCHANGED <<pvars, tvars, rvars, hvars, lvars>>

\* sendInsert 685-696: the goroutine p writes the Init
CmdWriteInit(p) ==
    /\ p \in procs
    /\ p.pc = "init"
    /\ \E ok \in WriteOutcomes :
          /\ socklog' = Append(socklog, WriteCall(Goroutine(p.n), InitEvent, ok))
          /\ wrFailed' = (wrFailed \/ ~ok)
          /\ procs' = (procs \ {p}) \cup {[p EXCEPT !.pc = IF ok THEN "insert" ELSE "err"]}
    /\ UNCHANGED <<rpc, rbuf, rdErrs, framesRead, delivered, lpc, lbuf, wpc, wbuf, arrived,
                   loop, loopbuf, gsdNick, spawned>>
    /\ UNCHANGED <<pvars, evars, tvars, rvars, hvars, lvars>>

\* sendInsert 698-707: the goroutine p writes the Insert; it returns nil on success
CmdWriteInsert(p) ==
    /\ p \in procs
    /\ p.pc = "insert"
    /\ \E ok \in WriteOutcomes :
          /\ socklog' = Append(socklog,
                               WriteCall(Goroutine(p.n), InsertEvent(p.cmd.Body, p.cmd.Utf16Index), ok))
          /\ wrFailed' = (wrFailed \/ ~ok)
          /\ procs' = IF ok THEN procs \ {p}
                      ELSE (procs \ {p}) \cup {[p EXCEPT !.pc = "err"]}
    /\ UNCHANGED <<rpc, rbuf, rdErrs, framesRead, delivered, lpc, lbuf, wpc, wbuf, arrived,
                   loop, loopbuf, gsdNick, spawned>>
    /\ UNCHANGED <<pvars, evars, tvars, rvars, hvars, lvars>>

\* sendPub 659-669: the goroutine p writes the Pub; it returns nil on success
CmdWritePub(p) ==
    /\ p \in procs
    /\ p.pc = "pub"
    /\ \E ok \in WriteOutcomes :
          /\ socklog' = Append(socklog, WriteCall(Goroutine(p.n), PubEvent, ok))
          /\ wrFailed' = (wrFailed \/ ~ok)
          /\ procs' = IF ok THEN procs \ {p}
                      ELSE (procs \ {p}) \cup {[p EXCEPT !.pc = "err"]}
    /\ UNCHANGED <<rpc, rbuf, rdErrs, framesRead, delivered, lpc, lbuf, wpc, wbuf, arrived,
                   loop, loopbuf, gsdNick, spawned>>
    /\ UNCHANGED <<pvars, evars, tvars, rvars, hvars, lvars>>

\* sendInsert 695, 705, sendPub 667, createMSGCmd 621: the goroutine p returns
\* errMsg{err}, and model.Update on it
CmdReturnErr(p) ==
    /\ p \in procs
    /\ p.pc = "err"
    /\ loop = "idle"
    /\ HandleErrMsg
    /\ procs' = procs \ {p}
    /\ UNCHANGED <<rpc, rbuf, rdErrs, framesRead, delivered, lpc, lbuf, wpc, wbuf, arrived,
                   loop, loopbuf, gsdNick, spawned, socklog, wrFailed>>
    /\ UNCHANGED <<pvars, tvars, rvars, hvars, lvars>>

\* model.Update on a key that enters Insert mode
SessionKeyInsertMode ==
    /\ loop = "idle"
    /\ HandleKeyInsertMode
    /\ UNCHANGED cvars
    /\ UNCHANGED <<pvars, tvars, rvars, hvars, lvars>>

\* model.Update on a key handled by the draft; tea starts the command returned
SessionKeyType(nv) ==
    /\ loop = "idle"
    /\ HandleKeyType(nv)
    /\ StartCmds
    /\ UNCHANGED <<rpc, rbuf, rdErrs, framesRead, delivered, lpc, lbuf, wpc, wbuf, arrived,
                   loop, loopbuf, gsdNick, socklog, wrFailed>>
    /\ UNCHANGED <<pvars, tvars, rvars, hvars, lvars>>

\* model.Update on "enter" in Insert mode; tea starts the commands returned
SessionKeyEnter ==
    /\ loop = "idle"
    /\ HandleKeyEnter
    /\ StartCmds
    /\ UNCHANGED <<rpc, rbuf, rdErrs, framesRead, delivered, lpc, lbuf, wpc, wbuf, arrived,
                   loop, loopbuf, gsdNick, socklog, wrFailed>>
    /\ UNCHANGED <<pvars, tvars, rvars, hvars, lvars>>

\* the steps of the tasks that wait for nothing but the scheduler, the
\* update loop or the writer: every step but the reads of an open socket
TaskStep ==
    \/ HandlersWriteSet
    \/ HandlersWriteGet
    \/ (rdErrs >= 1 /\ ReaderReadFails)
    \/ ReaderSendErr
    \/ ReaderSendEvt
    \/ LexSendSv
    \/ LexSendErr
    \/ WriterRecvSet
    \/ WriterWrite
    \/ WriterSendErr

\* the three background tasks, the update loop and the setMsg command
NextSession ==
    \/ HandlersWriteSet
    \/ HandlersWriteGet
    \/ \E f \in DocFrames : ReaderRead(f)
    \/ ReaderReadFails
    \/ ReaderSendErr
    \/ ReaderSendEvt
    \/ \E sv \in LexRecords : LexRead(sv)
    \/ LexReadFails
    \/ LexSendSv
    \/ LexSendErr
    \/ \E v \in SetNicks : SetMsg(v)
    \/ WriterRecvSet
    \/ WriterWrite
    \/ WriterSendErr

SpecSession == Init /\ [][NextSession]_vars

\* the outbound side: the composer, its command goroutines, the setMsg
\* command, the connect-time announcement and the writer
NextOutbound ==
    \/ HandlersWriteSet
    \/ HandlersWriteGet
    \/ SessionKeyInsertMode
    \/ \E nv \in SeqsUpTo(DraftRunes, MaxDraft) : SessionKeyType(nv)
    \/ SessionKeyEnter
    \/ \E v \in SetNicks : SetMsg(v)
    \/ WriterRecvSet
    \/ \E p \in procs : WriterRecvCmd(p)
    \/ WriterWrite
    \/ WriterSendErr
    \/ \E p \in procs : CmdWriteInit(p)
    \/ \E p \in procs : CmdWriteInsert(p)
    \/ \E p \in procs : CmdWritePub(p)
    \/ \E p \in procs : CmdReturnErr(p)

SpecOutbound == Init /\ [][NextOutbound]_vars

\* the Go scheduler runs every goroutine that can take a step
SpecSessionFair == SpecSession /\ WF_vars(TaskStep)

(***************************************************************************)
(* The search of Diff step by step, the frontier held in the state: one    *)
(* action per iteration of the loop at diff.go 126-142.                    *)
(***************************************************************************)
MaxRuns == 2       \* calls of Diff on the same words in one run

\* a Diff that keeps its heap from one call to the next
DiffBegin_KeepsHeap ==
    /\ pc = "start"
    /\ LET first == PopFront(HeapAdd(frontier, EditSegment(0, 0, 0, NilSegment)))
       IN  /\ frontier' = first.heap
           /\ popped' = first.front
           /\ pc' = IF first.front.nil THEN "panic" ELSE "search"
    /\ UNCHANGED <<wordA, wordB, edits, oldText, newText, batch, applied, scripts>>
    /\ UNCHANGED <<evars, tvars, cvars, rvars, lvars>>

\* Diff 122-125: a new heap with the head segment, the first PopFront
DiffBegin ==
    /\ pc = "start"
    /\ LET first == PopFront(HeapAdd(NewSegmentHeap, EditSegment(0, 0, 0, NilSegment)))
       IN  /\ frontier' = first.heap
           /\ popped' = first.front
    /\ pc' = "search"
    /\ UNCHANGED <<wordA, wordB, edits, oldText, newText, batch, applied, scripts>>
    /\ UNCHANGED <<evars, tvars, cvars, rvars, lvars>>

\* Diff 126-142: one iteration of the search loop (the next one dereferences
\* a nil segment if PopFront found the heap empty)
DiffIterate ==
    /\ pc = "search"
    /\ ~(popped.aidx = Len(wordA) /\ popped.bidx = Len(wordB))
    /\ LET p == PopFront(Expand(wordA, wordB, frontier, popped))
       IN  /\ frontier' = p.heap
           /\ popped' = p.front
           /\ pc' = IF p.front.nil THEN "panic" ELSE "search"
    /\ UNCHANGED <<wordA, wordB, edits, oldText, newText, batch, applied, scripts>>
    /\ UNCHANGED <<evars, tvars, cvars, rvars, lvars>>

\* Diff 143-175: the loop has ended, the script is read off the parents and
\* returned
DiffBacktrack ==
    /\ pc = "search"
    /\ popped.aidx = Len(wordA) /\ popped.bidx = Len(wordB)
    /\ LET script == Backtrack(wordA, wordB, popped, <<>>, Edit(EditNil, <<>>))
       IN  /\ edits' = script
           /\ scripts' = Append(scripts, script)
    /\ pc' = "planned"
    /\ UNCHANGED <<wordA, wordB, oldText, newText, batch, applied, frontier, popped>>
    /\ UNCHANGED <<evars, tvars, cvars, rvars, lvars>>

\* Diff is called again on the same words; what the call before has left is
\* still in memory
DiffAgain ==
    /\ pc = "planned"
    /\ Len(scripts) < MaxRuns
    /\ pc' = "start"
    /\ UNCHANGED <<wordA, wordB, edits, oldText, newText, batch, applied>>
    /\ UNCHANGED <<evars, tvars, cvars, rvars, hvars, lvars>>

NextSearch == DiffBegin \/ DiffIterate \/ DiffBacktrack \/ DiffAgain

SpecSearch == InitDiff /\ [][NextSearch]_vars

(***************************************************************************)
(* A SegmentHeap under any sequence of Add and PopFront calls.             *)
(***************************************************************************)
HeapWeights == {0, 1}     \* weights of the segments added
HeapIdx == {0, 1}         \* their aidx and bidx

HeapSegments ==
    {EditSegment(w, a, b, NilSegment) : w \in HeapWeights, a \in HeapIdx, b \in HeapIdx}

\* h.Add(seg)
CallAdd(seg) ==
    /\ frontier' = HeapAdd(frontier, seg)
    /\ UNCHANGED <<popped, scripts>>
    /\ UNCHANGED <<pvars, evars, tvars, cvars, rvars, lvars>>

\* h.PopFront()
CallPopFront ==
    /\ frontier' = PopFront(frontier).heap
    /\ popped' = PopFront(frontier).front
    /\ UNCHANGED scripts
    /\ UNCHANGED <<pvars, evars, tvars, cvars, rvars, lvars>>

NextHeap == (\E seg \in HeapSegments : CallAdd(seg)) \/ CallPopFront

SpecHeap == Init /\ [][NextHeap]_vars

(***************************************************************************)
(* The record-creation collaborator: PasswordClient.createMyRecord, called *)
(* by the createMSGCmd goroutines, which share one client: its tokens and  *)
(* the header map of its xrpc client are read and written without a lock,  *)
(* so the calls interleave at every statement.  Every request to the PDS   *)
(* (LexDo) succeeds or fails; the tokens are told apart by generation.     *)
(***************************************************************************)
MaxCalls == 2      \* calls of createMyRecord in one run

\* the value of the Authorization header: the access or the refresh token of
\* a generation
AccessToken(g) == [kind |-> "access", gen |-> g]
RefreshToken(g) == [kind |-> "refresh", gen |-> g]

\* a request as it is logged: the call that sent it, the endpoint, the token
\* of its Authorization header, whether LexDo returned nil
Request(call, kind, tok, ok) == [call |-> call, kind |-> kind, bearer |-> tok, ok |-> ok]

\* the outcome of a call: err is "" for a nil error
Outcome(call, err) == [call |-> call, err |-> err]

\* the generation of the tokens the next successful refreshSession returns
NextGeneration ==
    1 + Cardinality({i \in 1..Len(reqlog) : reqlog[i].kind = "refreshSession" /\ reqlog[i].ok})

\* CreateSession 1529-1542, the request having succeeded; login (262-281)
\* hands the client to the update loop after it, so no call runs before both
\* tokens are stored
ClientCreateSession ==
    /\ accessjwt = None
    /\ accessjwt' = Some(0)
    /\ refreshjwt' = Some(0)
    /\ UNCHANGED <<cpc, ncalls, reqlog, returned, header, inflight, out, bearer>>
    /\ UNCHANGED <<pvars, evars, tvars, cvars, hvars, lvars>>

\* createMyRecord 1566-1569: no session, the error is returned at once
EnterWithoutSession ==
    /\ ncalls < MaxCalls
    /\ accessjwt = None
    /\ ncalls' = ncalls + 1
    /\ cpc' = Append(cpc, "done")
    /\ inflight' = Append(inflight, None)
    /\ out' = Append(out, None)
    /\ bearer' = Append(bearer, None)
    /\ returned' = Append(returned, Outcome(ncalls + 1, "must create a session first"))
    /\ UNCHANGED <<accessjwt, refreshjwt, reqlog, header>>

CallWithoutSession ==
    /\ EnterWithoutSession
    /\ UNCHANGED <<pvars, evars, tvars, cvars, hvars, lvars>>

\* createMyRecord 1566: a session is held, the call goes on
EnterWithSession ==
    /\ ncalls < MaxCalls
    /\ accessjwt # None
    /\ ncalls' = ncalls + 1
    /\ cpc' = Append(cpc, "readAccess")
    /\ inflight' = Append(inflight, None)
    /\ out' = Append(out, None)
    /\ bearer' = Append(bearer, None)
    /\ UNCHANGED <<accessjwt, refreshjwt, reqlog, returned, header>>

CallEnter ==
    /\ EnterWithSession
    /\ UNCHANGED <<pvars, evars, tvars, cvars, hvars, lvars>>

\* fmt.Sprintf("Bearer %s", *c.accessjwt) or (*c.refreshjwt) at 1545, 1570,
\* 1580: the call n reads the token held now, the argument of Headers.Set
ReadToken(n, at, next, token) ==
    /\ n \in 1..ncalls
    /\ cpc[n] = at
    /\ bearer' = [bearer EXCEPT ![n] = Some(token)]
    /\ cpc' = [cpc EXCEPT ![n] = next]
    /\ UNCHANGED <<accessjwt, refreshjwt, ncalls, reqlog, returned, header, inflight, out>>
    /\ UNCHANGED <<pvars, evars, tvars, cvars, hvars, lvars>>

\* c.xrpc.Headers.Set("Authorization", ...) at 1545, 1570, 1580: the header
\* becomes the token the call n has read
HeadersSet(n, at, next) ==
    /\ n \in 1..ncalls
    /\ cpc[n] = at
    /\ header' = bearer[n]
    /\ bearer' = [bearer EXCEPT ![n] = None]
    /\ cpc' = [cpc EXCEPT ![n] = next]
    /\ UNCHANGED <<accessjwt, refreshjwt, ncalls, reqlog, returned, inflight, out>>
    /\ UNCHANGED <<pvars, evars, tvars, cvars, hvars, lvars>>

\* createMyRecord 1570: *c.accessjwt is read
CallReadAccess(n) ==
    accessjwt # None /\ ReadToken(n, "readAccess", "setHeader", AccessToken(accessjwt[1]))

\* createMyRecord 1570: the header is set to the access token read
CallSetHeader(n) == HeadersSet(n, "setHeader", "first")

\* LexDo (1547, 1572, 1582) builds the request of the call n from the header
\* as it is now and sends it; the goroutine waits for the response at pc next
LexDoSend(n, at, next) ==
    /\ n \in 1..ncalls
    /\ cpc[n] = at
    /\ inflight' = [inflight EXCEPT ![n] = header]
    /\ cpc' = [cpc EXCEPT ![n] = next]
    /\ UNCHANGED <<accessjwt, refreshjwt, ncalls, reqlog, returned, header, out, bearer>>
    /\ UNCHANGED <<pvars, evars, tvars, cvars, hvars, lvars>>

\* createMyRecord 1572: the first createRecord request of the call n is sent
CallFirstSend(n) == LexDoSend(n, "first", "firstWait")

\* createMyRecord 1572-1573, 1591-1593: LexDo returns; the call returns its
\* result, or goes on to refresh the session
CallFirstReturn(n) ==
    /\ n \in 1..ncalls
    /\ cpc[n] = "firstWait"
    /\ \E ok \in BOOLEAN :
          /\ reqlog' = Append(reqlog, Request(n, "createRecord", inflight[n][1], ok))
          /\ cpc' = [cpc EXCEPT ![n] = IF ok THEN "done" ELSE "refresh"]
          /\ returned' = IF ok THEN Append(returned, Outcome(n, "")) ELSE returned
    /\ inflight' = [inflight EXCEPT ![n] = None]
    /\ UNCHANGED <<accessjwt, refreshjwt, ncalls, header, out, bearer>>
    /\ UNCHANGED <<pvars, evars, tvars, cvars, hvars, lvars>>

\* RefreshSession 1545: *c.refreshjwt is read
CallReadRefresh(n) ==
    refreshjwt # None /\ ReadToken(n, "refresh", "refreshHeader", RefreshToken(refreshjwt[1]))

\* RefreshSession 1545: the header is set to the refresh token read
CallRefreshHeader(n) == HeadersSet(n, "refreshHeader", "refreshReq")

\* RefreshSession 1547: the refreshSession request of the call n is sent
CallRefreshSend(n) == LexDoSend(n, "refreshReq", "refreshWait")

\* RefreshSession 1547-1550 / createMyRecord 1574-1579: LexDo returns; the
\* new tokens are in out, or the call returns the error
CallRefreshReturn(n) ==
    /\ n \in 1..ncalls
    /\ cpc[n] = "refreshWait"
    /\ \E ok \in BOOLEAN :
          /\ reqlog' = Append(reqlog, Request(n, "refreshSession", inflight[n][1], ok))
          /\ out' = [out EXCEPT ![n] = IF ok THEN Some(NextGeneration) ELSE None]
          /\ cpc' = [cpc EXCEPT ![n] = IF ok THEN "storeAccess" ELSE "done"]
          /\ returned' = IF ok THEN returned
                          ELSE Append(returned, Outcome(n, "failed to refresh session"))
    /\ inflight' = [inflight EXCEPT ![n] = None]
    /\ UNCHANGED <<accessjwt, refreshjwt, ncalls, header, bearer>>
    /\ UNCHANGED <<pvars, evars, tvars, cvars, hvars, lvars>>

\* RefreshSession 1551: c.accessjwt = &out.AccessJwt
CallStoreAccess(n) ==
    /\ n \in 1..ncalls
    /\ cpc[n] = "storeAccess"
    /\ accessjwt' = out[n]
    /\ cpc' = [cpc EXCEPT ![n] = "storeRefresh"]
    /\ UNCHANGED <<refreshjwt, ncalls, reqlog, returned, header, inflight, out, bearer>>
    /\ UNCHANGED <<pvars, evars, tvars, cvars, hvars, lvars>>

\* RefreshSession 1552-1553: c.refreshjwt = &out.RefreshJwt
CallStoreRefresh(n) ==
    /\ n \in 1..ncalls
    /\ cpc[n] = "storeRefresh"
    /\ refreshjwt' = out[n]
    /\ out' = [out EXCEPT ![n] = None]
    /\ cpc' = [cpc EXCEPT ![n] = "retryHeader"]
    /\ UNCHANGED <<accessjwt, ncalls, reqlog, returned, header, inflight, bearer>>
    /\ UNCHANGED <<pvars, evars, tvars, cvars, hvars, lvars>>

\* createMyRecord 1580: *c.accessjwt is read
CallRetryRead(n) ==
    accessjwt # None /\ ReadToken(n, "retryHeader", "retrySet", AccessToken(accessjwt[1]))

\* createMyRecord 1580: the header is set to the access token read
CallRetryHeader(n) == HeadersSet(n, "retrySet", "retry")

\* createMyRecord 1582: the retry of the call n is sent
CallRetrySend(n) == LexDoSend(n, "retry", "retryWait")

\* a retry that, when it fails, refreshes the session again
CallRetryReturn_RefreshesAgain(n) ==
    /\ n \in 1..ncalls
    /\ cpc[n] = "retryWait"
    /\ \E ok \in BOOLEAN :
          /\ reqlog' = Append(reqlog, Request(n, "createRecord", inflight[n][1], ok))
          /\ cpc' = [cpc EXCEPT ![n] = IF ok THEN "done" ELSE "refresh"]
          /\ returned' = IF ok THEN Append(returned, Outcome(n, "")) ELSE returned
    /\ Len(reqlog) < 3 * MaxCalls + 2
    /\ inflight' = [inflight EXCEPT ![n] = None]
    /\ UNCHANGED <<accessjwt, refreshjwt, ncalls, header, out, bearer>>
    /\ UNCHANGED <<pvars, evars, tvars, cvars, hvars, lvars>>

\* createMyRecord 1582-1589: LexDo returns; the call returns the result of
\* the retry or its error
CallRetryReturn(n) ==
    /\ n \in 1..ncalls
    /\ cpc[n] = "retryWait"
    /\ \E ok \in BOOLEAN :
          /\ reqlog' = Append(reqlog, Request(n, "createRecord", inflight[n][1], ok))
          /\ returned' = Append(returned,
                                  Outcome(n, IF ok THEN "" ELSE "failed after refreshing"))
    /\ cpc' = [cpc EXCEPT ![n] = "done"]
    /\ inflight' = [inflight EXCEPT ![n] = None]
    /\ UNCHANGED <<accessjwt, refreshjwt, ncalls, header, out, bearer>>
    /\ UNCHANGED <<pvars, evars, tvars, cvars, hvars, lvars>>

NextRecord ==
    \/ ClientCreateSession
    \/ CallWithoutSession
    \/ CallEnter
    \/ \E n \in 1..MaxCalls : CallReadAccess(n)
    \/ \E n \in 1..MaxCalls : CallSetHeader(n)
    \/ \E n \in 1..MaxCalls : CallFirstSend(n)
    \/ \E n \in 1..MaxCalls : CallFirstReturn(n)
    \/ \E n \in 1..MaxCalls : CallReadRefresh(n)
    \/ \E n \in 1..MaxCalls : CallRefreshHeader(n)
    \/ \E n \in 1..MaxCalls : CallRefreshSend(n)
    \/ \E n \in 1..MaxCalls : CallRefreshReturn(n)
    \/ \E n \in 1..MaxCalls : CallStoreAccess(n)
    \/ \E n \in 1..MaxCalls : CallStoreRefresh(n)
    \/ \E n \in 1..MaxCalls : CallRetryRead(n)
    \/ \E n \in 1..MaxCalls : CallRetryHeader(n)
    \/ \E n \in 1..MaxCalls : CallRetrySend(n)
    \/ \E n \in 1..MaxCalls : CallRetryReturn(n)

SpecRecord == Init /\ [][NextRecord]_vars

\* the call n has returned / has returned an error
HasReturned(n) == \E i \in 1..Len(returned) : returned[i].call = n
ReturnedError(n) == \E i \in 1..Len(returned) : returned[i].call = n /\ returned[i].err # ""

(***************************************************************************)
(* A sender and a replica: the composer of one client (sentmsg, draft)     *)
(* with its command goroutines and its writer, and the document store of   *)
(* another client (msgs, objs, render, peerState).  The server relays what *)
(* the sender has written, in the order of the writes, under the id it     *)
(* gave the sender's message.                                              *)
(***************************************************************************)
\* the id the server gives the sender's message
ReplicaId == CHOOSE i \in Ids : TRUE

\* the values draft.Update(msg) can leave for a key, the runes typed being
\* those of Runes: 'a' and two runes outside the Basic Multilingual Plane
TypedEdits(v) ==
    {v}
    \cup {Slice(v, 0, i) \o <<r>> \o Slice(v, i, Len(v)) :
            i \in (IF Len(v) < MaxRunes THEN 0..Len(v) ELSE {}), r \in Runes}
    \cup {Slice(v, 0, i - 1) \o Slice(v, i, Len(v)) : i \in 1..Len(v)}

\* the events that have reached the server: the successful writes, in order
RECURSIVE Written(_)
Written(log) ==
    IF log = <<>> THEN <<>>
    ELSE (IF log[1].ok THEN <<log[1].data>> ELSE <<>>) \o Written(Tail(log))

\* an event of the sender as the server relays it: with the id of the message
Relay(e) ==
    IF e.Msg.kind \in {"Init", "Insert", "Pub"}
    THEN [Id |-> None, Msg |-> [e.Msg EXCEPT !.Id = Some(ReplicaId)]]
    ELSE IF e.Msg.kind = "Editbatch"
    THEN [Id |-> Some(ReplicaId), Msg |-> e.Msg]
    ELSE e

\* updateConnected 594-612 at the sender: a key handled by the draft; tea
\* starts the command returned
SenderKeyType(nv) ==
    /\ state = "Connected"
    /\ mode = "Insert"
    /\ nv \in TypedEdits(draft)
    /\ draft' = nv
    /\ sentmsg' = InsertTail(nv).sentmsg
    /\ cmds' = InsertTail(nv).cmds
    /\ StartCmds
    /\ UNCHANGED <<state, mode, msgs, objs, render, myid, signeturi, xrpc, echoSeen, svSeen>>
    /\ UNCHANGED <<rpc, rbuf, rdErrs, framesRead, delivered, lpc, lbuf, wpc, wbuf, arrived,
                   loop, loopbuf, gsdNick, socklog, wrFailed>>
    /\ UNCHANGED <<pvars, tvars, rvars, hvars, lvars>>

\* model.Update at the replica on the lrcEvent of the next relayed event:
\* updateConnected 459-537, and 444-450 when it returns an error; in the Error
\* state the dispatch on gsd.state has no case
ReplicaReceive ==
    LET k == Len(delivered) + 1
        W == Written(socklog)
    IN  /\ k <= Len(W)
        /\ delivered' = Append(delivered, Relay(W[k]))
        /\ IF peerState = "Connected"
           THEN LET S1 == ApplyEvent(Relay(W[k]), Store(msgs, objs, render))
                IN  /\ msgs' = S1.msgs
                    /\ objs' = S1.objs
                    /\ render' = S1.render
                    /\ peerState' = IF S1.err THEN "Error" ELSE peerState
           ELSE UNCHANGED <<msgs, objs, render, peerState>>
        /\ UNCHANGED <<state, mode, myid, signeturi, sentmsg, draft, xrpc, cmds, echoSeen,
                       svSeen>>
        /\ UNCHANGED <<rpc, rbuf, rdErrs, framesRead, lpc, lbuf, wpc, wbuf, arrived,
                       loop, loopbuf, gsdNick, procs, spawned, socklog, wrFailed>>
        /\ UNCHANGED <<pvars, tvars, rvars, hvars, viewsRead, dials, nav>>

NextReplica ==
    \/ KeyInsertMode
    \/ KeyEsc
    \/ \E nv \in Texts : SenderKeyType(nv)
    \/ \E p \in procs : CmdWriteInit(p)
    \/ \E p \in procs : CmdWriteInsert(p)
    \/ \E p \in procs : CmdReturnErr(p)
    \/ \E p \in procs : WriterRecvCmd(p)
    \/ WriterWrite
    \/ WriterSendErr
    \/ ReplicaReceive

SpecReplica == Init /\ [][NextReplica]_vars

(***************************************************************************)
(* The composer, its command goroutines and its server: the server gives   *)
(* the k-th Init it receives the k-th id, echoes it once, and publishes    *)
(* one signetView for it on the record stream; echoes and records arrive   *)
(* in order, at any later time.                                            *)
(***************************************************************************)
\* the Inits that have reached the server: the messages it has given an id
NumInits ==
    Cardinality({i \in 1..Len(socklog) : socklog[i].data.Msg.kind = "Init" /\ socklog[i].ok})

\* the local messages started: their Init was written, or is about to be
MessagesStarted ==
    Cardinality({i \in 1..Len(socklog) : socklog[i].data.Msg.kind = "Init"})
        + Cardinality({p \in procs : p.pc = "init"})

\* the id the server gives the k-th message, and the URI of its signet record
ServerId(k) == CHOOSE i \in Ids : Cardinality({j \in Ids : j < i}) = k - 1
ServerURI(k) == IF k = 1 THEN "at://signet/1" ELSE "at://signet/2"

\* the text typed in this scenario
PublishTexts == {<<97>>}

\* updateConnected 594-612: a key handled by the draft; tea starts the
\* command returned; at most max messages are started
KeyTypeUpTo(nv, max) ==
    /\ HandleKeyType(nv)
    /\ (sentmsg = None /\ nv # <<>>) => MessagesStarted < max
    /\ StartAll(cmds')
    /\ UNCHANGED <<rpc, rbuf, rdErrs, framesRead, delivered, lpc, lbuf, wpc, wbuf, arrived,
                   loop, loopbuf, gsdNick, socklog, wrFailed>>
    /\ UNCHANGED <<pvars, tvars, rvars, hvars, lvars>>

\* a key, the server having an id for every message started
PublishKeyType(nv) == KeyTypeUpTo(nv, Cardinality(Ids))

\* a key, in a run of one message
CreateKeyType(nv) == KeyTypeUpTo(nv, 1)

\* updateConnected 560-585: "enter"; tea starts the commands returned
PublishEnter ==
    /\ HandleKeyEnter
    /\ StartAll(cmds')
    /\ UNCHANGED <<rpc, rbuf, rdErrs, framesRead, delivered, lpc, lbuf, wpc, wbuf, arrived,
                   loop, loopbuf, gsdNick, socklog, wrFailed>>
    /\ UNCHANGED <<pvars, tvars, rvars, hvars, lvars>>

\* login 262-281 has created the session; model.Update, case loggedInMsg
PublishLoggedIn ==
    /\ accessjwt # None
    /\ HandleLoggedInMsg
    /\ UNCHANGED <<pvars, tvars, cvars, rvars, hvars, lvars>>

\* createMSGCmd 619: the goroutine p enters CreateXCVRMessage / createMyRecord
CmdCreateEnter(p) ==
    /\ p \in procs
    /\ p.pc = "create"
    /\ EnterWithoutSession \/ EnterWithSession
    /\ procs' = (procs \ {p})
                    \cup {[n |-> p.n, cmd |-> p.cmd, pc |-> "call", call |-> ncalls + 1]}
    /\ UNCHANGED <<rpc, rbuf, rdErrs, framesRead, delivered, lpc, lbuf, wpc, wbuf, arrived,
                   loop, loopbuf, gsdNick, spawned, socklog, wrFailed>>
    /\ UNCHANGED <<pvars, evars, tvars, hvars, lvars>>

\* createMSGCmd 620-623: the call has returned; the goroutine returns
\* errMsg{err}, and model.Update on it, or nil
CmdCreateReturn(p) ==
    /\ p \in procs
    /\ p.pc = "call"
    /\ cpc[p.call] = "done"
    /\ IF ReturnedError(p.call) THEN HandleErrMsg ELSE UNCHANGED evars
    /\ procs' = procs \ {p}
    /\ UNCHANGED <<rpc, rbuf, rdErrs, framesRead, delivered, lpc, lbuf, wpc, wbuf, arrived,
                   loop, loopbuf, gsdNick, spawned, socklog, wrFailed>>
    /\ UNCHANGED <<pvars, tvars, rvars, hvars, lvars>>

\* the echo of the next Init arrives: lrcEvent Init{id, echoed: true}
PublishEcho ==
    LET k == Len(delivered) + 1
        e == [Id |-> None, Msg |-> [kind |-> "Init", Id |-> Some(ServerId(k)),
                                    Nick |-> None, Echoed |-> Some(TRUE)]]
    IN  /\ k <= NumInits
        /\ HandleLrcEvent(e)
        /\ delivered' = Append(delivered, e)
        /\ UNCHANGED <<rpc, rbuf, rdErrs, framesRead, lpc, lbuf, wpc, wbuf, arrived,
                       loop, loopbuf, gsdNick, procs, spawned, socklog, wrFailed>>
        /\ UNCHANGED <<pvars, tvars, rvars, hvars, lvars>>

\* the signetView of the next message arrives: svMsg{lrcId, uri}
PublishView ==
    LET k == Len(viewsRead) + 1
        sv == [LrcId |-> ServerId(k), URI |-> ServerURI(k)]
    IN  /\ k <= NumInits
        /\ HandleSvMsg(sv)
        /\ viewsRead' = Append(viewsRead, sv)
        /\ UNCHANGED <<dials, peerState, nav, pvars, tvars, cvars, rvars, hvars>>

\* two messages and their echoes and signetViews; the createMSGCmd goroutines
\* are started and not followed here
NextPublish ==
    \/ KeyInsertMode
    \/ ClientCreateSession
    \/ PublishLoggedIn
    \/ \E nv \in PublishTexts : PublishKeyType(nv)
    \/ PublishEnter
    \/ \E p \in procs : CmdWriteInit(p)
    \/ \E p \in procs : CmdWriteInsert(p)
    \/ \E p \in procs : CmdWritePub(p)
    \/ \E p \in procs : CmdReturnErr(p)
    \/ PublishEcho
    \/ PublishView

SpecPublish == Init /\ [][NextPublish]_vars

\* one message from its first key to the return of its createMSGCmd goroutine
NextCreate ==
    \/ KeyInsertMode
    \/ ClientCreateSession
    \/ PublishLoggedIn
    \/ \E nv \in PublishTexts : CreateKeyType(nv)
    \/ PublishEnter
    \/ \E p \in procs : CmdWriteInit(p)
    \/ \E p \in procs : CmdWriteInsert(p)
    \/ \E p \in procs : CmdWritePub(p)
    \/ \E p \in procs : CmdReturnErr(p)
    \/ \E p \in procs : CmdCreateEnter(p)
    \/ \E p \in procs : CmdCreateReturn(p)
    \/ \E n \in 1..MaxCalls : CallReadAccess(n)
    \/ \E n \in 1..MaxCalls : CallSetHeader(n)
    \/ \E n \in 1..MaxCalls : CallFirstSend(n)
    \/ \E n \in 1..MaxCalls : CallFirstReturn(n)
    \/ \E n \in 1..MaxCalls : CallReadRefresh(n)
    \/ \E n \in 1..MaxCalls : CallRefreshHeader(n)
    \/ \E n \in 1..MaxCalls : CallRefreshSend(n)
    \/ \E n \in 1..MaxCalls : CallRefreshReturn(n)
    \/ \E n \in 1..MaxCalls : CallStoreAccess(n)
    \/ \E n \in 1..MaxCalls : CallStoreRefresh(n)
    \/ \E n \in 1..MaxCalls : CallRetryRead(n)
    \/ \E n \in 1..MaxCalls : CallRetryHeader(n)
    \/ \E n \in 1..MaxCalls : CallRetrySend(n)
    \/ \E n \in 1..MaxCalls : CallRetryReturn(n)
    \/ PublishEcho
    \/ PublishView

SpecCreate == Init /\ [][NextCreate]_vars

(***************************************************************************)
(* Reference definitions used by the properties                            *)
(***************************************************************************)
\* concatenation of the payloads of the runs whose type is in types
RECURSIVE Payload(_, _)
Payload(es, types) ==
    IF es = <<>> THEN <<>>
    ELSE (IF es[1].EditType \in types THEN es[1].Utf16Text ELSE <<>>)
             \o Payload(Tail(es), types)

\* reference edit distance (insert and delete cost 1, match costs 0)
RECURSIVE EditDistance(_, _)
EditDistance(A, B) ==
    IF A = <<>> THEN Len(B)
    ELSE IF B = <<>> THEN Len(A)
    ELSE LET del == 1 + EditDistance(Tail(A), B)
             ins == 1 + EditDistance(A, Tail(B))
             best == IF del < ins THEN del ELSE ins
         IN  IF A[1] = B[1]
             THEN LET keep == EditDistance(Tail(A), Tail(B))
                  IN  IF keep < best THEN keep ELSE best
             ELSE best

\* C1: the script returned by Diff(A, B) accounts for A and B: its Keep and
\* Delete payloads concatenated give A, its Keep and Add payloads give B.
C1_DiffTransforms ==
    pc = "planned" =>
        /\ Payload(edits, {EditKeep, EditDel}) = wordA
        /\ Payload(edits, {EditKeep, EditAdd}) = wordB

C1_Witness ==
    /\ pc = "planned"
    /\ wordA = <<97, 98, 97>>
    /\ wordB = <<98, 97, 97, 98>>
    /\ Len(edits) >= 3

\* C2: the script returned by Diff(A, B) is minimal: its Add and Delete
\* payloads together have as many units as the edit distance of A and B.
C2_DiffMinimal ==
    pc = "planned" =>
        Len(Payload(edits, {EditAdd, EditDel})) = EditDistance(wordA, wordB)

\* C3: the ops emitted for Diff(old, new), applied in order to the old text
\* with the document store's rules, give the new text.
C3_BatchReproducesNew ==
    pc = "applied" => applied = newText

\* C4: once an echoed Init for id n and a signetView with lrcId n have both
\* been handled, in either order, the composer is Publishable.
C4_CorrelatesInEitherOrder ==
    \A n \in Ids :
        (state = "Connected" /\ n \in echoSeen /\ n \in svSeen)
            => (myid # None /\ signeturi # None)

\* a record-creation command is among the commands a step returns
IssuesCreate == \E c \in cmds' : c.cmd = "createMSGCmd"

\* C5: a record creation is issued only from a state with myid and signeturi
\* both set, and signeturi is never set while myid is unset.
C5_CreateOnlyWhenPublishable ==
    [][/\ IssuesCreate => (myid # None /\ signeturi # None)
       /\ signeturi' # None => myid' # None]_vars

C5_Witness ==
    /\ \E c \in cmds : c.cmd = "createMSGCmd" /\ c.SignetURI \in URIs
    /\ signeturi = None
    /\ myid = None

\* what C6 says the publish step leaves
PublishedAndCleared ==
    /\ sentmsg # None
    /\ cmds' = {CmdSendPub, CmdCreateMSG(signeturi[1], sentmsg[1])}
    /\ sentmsg' = None
    /\ myid' = None
    /\ signeturi' = None
    /\ draft' = <<>>

\* C6: enter with a message in progress while Publishable sends Pub,
\* submits one record creation with the signet URI and the composed text, and
\* clears sentmsg, myid, signeturi and the draft.
C6_PublishWhilePublishable ==
    [][(KeyEnter /\ sentmsg # None /\ myid # None /\ signeturi # None)
          => PublishedAndCleared]_vars

\* C7: enter with a message in progress and no signet URI sends Pub, issues
\* no record creation and leaves sentmsg, myid and signeturi unset.
C7_PublishNotPublishable ==
    [][(KeyEnter /\ sentmsg # None /\ signeturi = None)
          => /\ cmds' = {CmdSendPub}
             /\ sentmsg' = None
             /\ myid' = None
             /\ signeturi' = None]_vars

\* the ids of the entries of the display-order list, in display order
RenderIds == [i \in 1..Len(render) |-> objs[render[i]].forId]

\* a sequence without its repeated elements: the order of first appearance
RECURSIVE FirstAppearance(_)
FirstAppearance(q) ==
    IF q = <<>> THEN <<>>
    ELSE LET front == FirstAppearance(Slice(q, 0, Len(q) - 1))
         IN  IF \E i \in 1..Len(front) : front[i] = q[Len(q)] THEN front
             ELSE Append(front, q[Len(q)])

\* C8: the display-order list holds exactly one entry per id that created a
\* message, in order of first appearance.
C8_OneEntryPerId ==
    /\ RenderIds = FirstAppearance(RenderIds)
    /\ {RenderIds[i] : i \in 1..Len(render)} = {id \in Ids : msgs[id] # 0}

\* C9: the display-order list is append-only: the list before a step is a
\* prefix of the list after it.
C9_RenderAppendOnly ==
    [][/\ Len(render) <= Len(render')
       /\ \A i \in 1..Len(render) : render'[i] = render[i]]_vars

C9_Witness ==
    /\ Len(render) = 3
    /\ objs[render[1]].forId = 5
    /\ objs[render[2]].forId = 2
    /\ objs[render[1]].text # <<>>

\* C10: Pub on an unseen id changes nothing and raises no error; Pub on a
\* seen id sets active to FALSE and changes neither the text of the message
\* nor any other message nor the display order.
C10_PubOnlyDeactivates ==
    [][\A e \in PubEvents :
          (e.Msg.Id # None /\ LrcEvent(e)) =>
              LET m == msgs[e.Msg.Id[1]]
              IN  /\ state' = "Connected"
                  /\ msgs' = msgs
                  /\ render' = render
                  /\ Len(objs') = Len(objs)
                  /\ \A h \in 1..Len(objs) :
                        /\ objs'[h].text = objs[h].text
                        /\ objs'[h].nick = objs[h].nick
                        /\ objs'[h].active = (objs[h].active /\ h # m)]_vars

C10_Witness ==
    /\ Len(objs) = 2
    /\ ~objs[1].active
    /\ objs[1].text = <<97>>
    /\ objs[2].active
    /\ msgs[5] = 0

\* C11: insertAtUTF16Index(text, i, b), in UTF-16 units: text[0..i) + b +
\* text[i..L) if i <= L, else text + (i - L) spaces + b; the length of the
\* result is max(L, i) + |b|.
C11_InsertResult ==
    tpc = "inserted" =>
        LET U == UnitsOfString(argBase)
            B == UnitsOfString(argInsert)
            L == Len(U)
            R == UnitsOfString(result)
        IN  /\ R = IF argIndex <= L
                   THEN Slice(U, 0, argIndex) \o B \o Slice(U, argIndex, L)
                   ELSE U \o Spaces(argIndex - L) \o B
            /\ Len(R) = (IF L < argIndex THEN argIndex ELSE L) + Len(B)

\* the length part of C11 alone
C11_InsertLength ==
    tpc = "inserted" =>
        LET L == Len(UnitsOfString(argBase))
        IN  Len(UnitsOfString(result))
                = (IF L < argIndex THEN argIndex ELSE L) + Len(UnitsOfString(argInsert))

\* C12: deleteBtwnUTF16Indices(text, start, end), in UTF-16 units: the text
\* unchanged if end <= start or start > L, else the units before start
\* followed by the units from min(end, L) on.
C12_DeleteResult ==
    tpc = "deleted" =>
        LET U == UnitsOfString(argBase)
            L == Len(U)
            stop == IF L < argEnd THEN L ELSE argEnd
        IN  IF argEnd <= argIndex \/ argIndex > L
            THEN result = argBase
            ELSE UnitsOfString(result) = Slice(U, 0, argIndex) \o Slice(U, stop, L)

\* C13, for an index within the text: inserting b at i <= L and deleting
\* [i, i + |b|) restores the text.
C13_RoundTripInText ==
    (tpc = "restored" /\ argIndex <= Len(UnitsOfString(argBase))) => result = argBase

\* the event is an Init, Pub, Insert or Delete without its id, or an edit
\* batch carried by an event without id
LacksId(e) ==
    \/ e.Msg.kind \in {"Init", "Pub", "Insert", "Delete"} /\ e.Msg.Id = None
    \/ e.Msg.kind = "Editbatch" /\ e.Id = None

\* C14: an inbound Init, Pub, Insert, Delete or EditBatch event that lacks
\* its identifier, handled in the Connected state, puts the update loop into
\* the Error state and leaves the document store and the display order as
\* they were.
C14_MissingIdIsError ==
    [][(ReaderSendEvt /\ state = "Connected" /\ LacksId(rbuf)) =>
          /\ state' = "Error"
          /\ msgs' = msgs
          /\ objs' = objs
          /\ render' = render]_vars

\* the tasks that have had a failure: a failed read or a frame that does not
\* decode, a failed read or decode of a record, a failed write
DocReaderFailed == rdErrs >= 1 \/ \E i \in 1..Len(framesRead) : ~framesRead[i].ok
LexReaderFailed == lpc \in {"sendErr", "done"}
WriterFailed == wpc \in {"sendErr", "done"}

\* the WriteMessage calls of the writer task, in order
RECURSIVE WrittenBy(_, _)
WrittenBy(log, by) ==
    IF log = <<>> THEN <<>>
    ELSE (IF log[1].by = by THEN <<log[1]>> ELSE <<>>) \o WrittenBy(Tail(log), by)

\* C15: after its first read, decode or write failure a background task
\* forwards no further event and performs no further socket operation, and
\* it ends having reported the error to the update loop.
C15_TasksStopOnFailure ==
    [][/\ DocReaderFailed =>
            /\ delivered' = delivered
            /\ framesRead' = framesRead
            /\ rdErrs' = rdErrs
       /\ LexReaderFailed =>
            /\ lpc' \in {"sendErr", "done"}
            /\ lbuf' = lbuf
       /\ WriterFailed =>
            /\ wpc' \in {"sendErr", "done"}
            /\ arrived' = arrived
            /\ WrittenBy(socklog', Task("writer")) = WrittenBy(socklog, Task("writer"))
       /\ (lpc' = "done" \/ wpc' = "done") => state' = "Error"]_vars

\* the payloads of a sequence of WriteMessage calls
Payloads(calls) == [i \in 1..Len(calls) |-> calls[i].data]

\* C16: the writer hands the payloads it received from datachan to the socket
\* in the order they arrived, each once (the last one may still be in hand);
\* only its last write can have failed, and then it receives nothing more and
\* ends having reported the error.
C16_WriterInOrderOnce ==
    LET W == WrittenBy(socklog, Task("writer"))
    IN  /\ Payloads(W) \o (IF wbuf = None THEN <<>> ELSE wbuf) = arrived
        /\ \A i \in 1..Len(W) : ~W[i].ok => i = Len(W)
        /\ (\E i \in 1..Len(W) : ~W[i].ok) <=> WriterFailed
        /\ wpc = "done" => state = "Error"

C16_Witness ==
    LET W == WrittenBy(socklog, Task("writer"))
    IN  /\ Len(W) = 2
        /\ W[1].data.Msg.kind = "Editbatch"
        /\ W[2].data.Msg.kind = "Set"
        /\ W[1].ok
        /\ ~W[2].ok
        /\ wpc = "done"

\* C17: the update loop is never inside a call of Update waiting at
\* datachan <- data while the writer is not there to receive.
C17_UpdateNeverBlocks == ~(loop = "sendSet" /\ wpc # "recv")

\* C18: the events of the lrcEvents the update loop received are the frames
\* read from the document socket, decoded, in order: none invented or out of
\* order, and none missing once the reader is back at its read.
C18_DeliveredAreFramesRead ==
    /\ Len(delivered) <= Len(framesRead)
    /\ \A i \in 1..Len(delivered) : delivered[i] = Unmarshal(framesRead[i])
    /\ rpc = "read" => Len(delivered) = Len(framesRead)

\* C19: once the engine is in the Error state, the two readers and the
\* writer eventually all have terminated.
C19_TasksEndAfterError ==
    (state = "Error") ~> (rpc = "done" /\ lpc = "done" /\ wpc = "done")

\* the WriteMessage calls of the goroutine n before the i-th call of the log
InitWrittenBefore(i, n) ==
    \E j \in 1..(i - 1) :
        /\ socklog[j].by = Goroutine(n)
        /\ socklog[j].data = InitEvent
        /\ socklog[j].ok

\* C20: the step in which the draft becomes non-empty with no message in
\* progress sets sentmsg to the draft and starts one sendInsert(draft, 0,
\* true); an Insert of a command goroutine is written only after the Init of
\* that goroutine was written, it is at offset 0, and there is one at most.
C20_InitThenInsert ==
    /\ [](\A i \in 1..Len(socklog) :
            (socklog[i].by.task = "cmd" /\ socklog[i].data.Msg.kind = "Insert") =>
                /\ InitWrittenBefore(i, socklog[i].by.n)
                /\ socklog[i].data.Msg.Utf16Index = 0
                /\ \A k \in 1..Len(socklog) :
                      (socklog[k].by = socklog[i].by /\ socklog[k].data.Msg.kind = "Insert")
                          => k = i)
    /\ [][\A nv \in SeqsUpTo(DraftRunes, MaxDraft) :
            (SessionKeyType(nv) /\ sentmsg = None /\ nv # <<>>) =>
                /\ sentmsg' = Some(nv)
                /\ cmds' = {CmdSendInsert(nv, 0, TRUE)}
                /\ procs' = procs \cup {[n |-> spawned + 1, pc |-> "init",
                                          cmd |-> CmdSendInsert(nv, 0, TRUE)]}]_vars

C20_Witness ==
    /\ Len(socklog) >= 2
    /\ \E i \in 2..Len(socklog) :
          /\ socklog[i] = WriteCall(Goroutine(1), InsertEvent(<<97>>, 0), TRUE)
          /\ socklog[i - 1] # WriteCall(Goroutine(1), InitEvent, TRUE)
          /\ InitWrittenBefore(i, 1)
    /\ sentmsg = Some(<<97, 97>>)

(***************************************************************************)
(* C21: while a message is in progress (sentmsg is set before and after    *)
(* the step), a step of the update loop that leaves the draft different    *)
(* from sentmsg starts exactly one command goroutine, a sendEditBatch of   *)
(* the batch encoded from Diff(sentmsg, draft), and sets sentmsg to the    *)
(* draft; a step that leaves the draft equal to sentmsg starts no command  *)
(* goroutine and leaves sentmsg unchanged.                                 *)
(***************************************************************************)
\* the command goroutines a step starts
Started == {p \in procs' : p.n > spawned}

C21_SyncsOnChange ==
    [][(sentmsg # None /\ sentmsg' # None) =>
        IF draft' # sentmsg[1]
        THEN /\ Started = {Spawn(CmdSendEditBatch(Diff(UnitsOfString(sentmsg[1]),
                                                       UnitsOfString(draft'))),
                                 spawned + 1)}
             /\ spawned' = spawned + 1
             /\ sentmsg' = Some(draft')
        ELSE /\ Started = {}
             /\ spawned' = spawned
             /\ sentmsg' = sentmsg]_vars

\* a second change of the draft has been synced: its batch waits for the writer
C21_Witness ==
    /\ sentmsg = Some(draft)
    /\ Len(draft) = 2
    /\ \E p \in procs : p.cmd.cmd = "sendEditBatch" /\ p.cmd.Edits # <<>> /\ p.pc = "send"

(***************************************************************************)
(* C22: an Init with the id N leaves, under N, a message with empty text,  *)
(* active, with the nick of the Init, whether N was unseen, being edited   *)
(* or published; every other id keeps its message, and that message its    *)
(* text, nick and active flag.                                             *)
(***************************************************************************)
C22_InitResets ==
    [][\A e \in InitStoreEvents :
          (e.Msg.kind = "Init" /\ LrcEvent(e)) =>
              LET id == e.Msg.Id[1]
              IN  /\ state' = "Connected"
                  /\ msgs'[id] # 0
                  /\ objs'[msgs'[id]] = Message(id, e.Msg.Nick)
                  /\ \A j \in Ids \ {id} :
                        /\ msgs'[j] = msgs[j]
                        /\ msgs[j] # 0 => objs'[msgs[j]] = objs[msgs[j]]]_vars

\* an Init with a nick has reset a message that was published with text,
\* next to a message of another id that kept its text
C22_Witness ==
    /\ msgs[2] # 0
    /\ msgs[5] # 0
    /\ objs[msgs[2]] = Message(2, Some(<<110>>))
    /\ objs[msgs[5]].text = <<97>>
    /\ \E h \in 1..Len(objs) :
          objs[h].forId = 2 /\ ~objs[h].active /\ objs[h].text = <<97>>

(***************************************************************************)
(* C23: an edit batch with the outer id N leaves the store and the display *)
(* order that its ops leave when they are applied one by one, in order, as *)
(* single Insert and Delete events with the id N, whatever id a sub-op     *)
(* carries; the messages of the other ids are not touched.                 *)
(***************************************************************************)
\* the store after the ops es arrive one by one as events with the id id
RECURSIVE OneByOne(_, _, _)
OneByOne(id, es, S) ==
    IF es = <<>> \/ S.err THEN S
    ELSE OneByOne(id, Tail(es),
                  ApplyEvent([Id |-> None, Msg |-> [es[1] EXCEPT !.Id = Some(id)]], S))

C23_BatchIsOpsInOrder ==
    [][\A e \in SubIdBatches :
          LrcEvent(e) =>
              LET N == e.Id[1]
                  S1 == OneByOne(N, e.Msg.Edits, Store(msgs, objs, render))
              IN  /\ state' = "Connected"
                  /\ msgs' = S1.msgs
                  /\ objs' = S1.objs
                  /\ render' = S1.render
                  /\ \A j \in Ids \ {N} :
                        /\ msgs'[j] = msgs[j]
                        /\ msgs[j] # 0 => objs'[msgs[j]] = objs[msgs[j]]]_vars

\* a batch for the id 2 whose sub-op names the id 5 has put its text in the
\* message 2, and another has replaced the first unit; 5 is still unseen
C23_Witness ==
    /\ msgs[2] # 0
    /\ msgs[5] = 0
    /\ objs[msgs[2]].text = <<97, 97>>
    /\ Len(objs) = 1

(***************************************************************************)
(* C24: for "hello" and "hallo" Diff returns Keep("h"), Delete("e"),       *)
(* Add("a"), Keep("llo") and the batch is Delete(1,2), Insert(1,"a");      *)
(* whenever the new word is the old one with one unit replaced, the Delete *)
(* run comes before the Add run in the script.                             *)
(***************************************************************************)
\* the script and the batch of the scenario
HelloScript ==
    <<Edit(EditKeep, <<104>>), Edit(EditDel, <<101>>), Edit(EditAdd, <<97>>),
      Edit(EditKeep, <<108, 108, 111>>)>>
HelloBatch == <<makeDelete(1, 2), makeInsert(<<97>>, 1)>>

C24_HelloScenario ==
    (oldText = Hello /\ newText = Hallo) =>
        /\ pc \in {"planned", "encoded", "applied"} => edits = HelloScript
        /\ pc \in {"encoded", "applied"} => batch = HelloBatch

\* B is A with exactly one unit replaced
OneUnitReplaced(A, B) ==
    /\ Len(A) = Len(B)
    /\ Cardinality({i \in 1..Len(A) : A[i] # B[i]}) = 1

\* every Delete run of the script es comes before every Add run
DeleteBeforeAdd(es) ==
    \A i, j \in 1..Len(es) :
        (es[i].EditType = EditDel /\ es[j].EditType = EditAdd) => i < j

C24_ReplacedUnitDeleteFirst ==
    /\ C24_HelloScenario
    /\ (pc = "planned" /\ OneUnitReplaced(wordA, wordB)) => DeleteBeforeAdd(edits)

\* C24, amended: the scenario as stated; a replaced unit does not fix the
\* order of the runs: for "aa" and "ba" the script is Add("b"), Keep("a"), Delete("a")
C24_HelloAndOrderNotFixed ==
    /\ C24_HelloScenario
    /\ (pc = "planned" /\ wordA = <<97, 97>> /\ wordB = <<98, 97>>) =>
            edits = <<Edit(EditAdd, <<98>>), Edit(EditKeep, <<97>>), Edit(EditDel, <<97>>)>>

C24_Witness ==
    /\ oldText = Hello
    /\ newText = Hallo
    /\ pc = "applied"
    /\ Len(edits) = 4
    /\ Len(batch) = 2
    /\ applied = Hallo

(***************************************************************************)
(* C25: the edge cases of Diff.  With A empty and B not, the script is the *)
(* single run Add(B) and the batch is Insert(0, B), as for "" and "hi";    *)
(* with B empty and A not, the script is the single run Delete(A); with    *)
(* A = B, not empty, the script is the single run Keep(A) and the batch is *)
(* empty.                                                                  *)
(***************************************************************************)
C25_EdgeCases ==
    /\ (pc \in {"planned", "encoded", "applied"} /\ wordA = <<>> /\ wordB # <<>>) =>
            edits = <<Edit(EditAdd, wordB)>>
    /\ (pc \in {"encoded", "applied"} /\ wordA = <<>> /\ wordB # <<>>) =>
            batch = <<makeInsert(newText, 0)>>
    /\ (pc \in {"planned", "encoded", "applied"} /\ wordB = <<>> /\ wordA # <<>>) =>
            edits = <<Edit(EditDel, wordA)>>
    /\ (pc \in {"planned", "encoded", "applied"} /\ wordA = wordB /\ wordA # <<>>) =>
            edits = <<Edit(EditKeep, wordA)>>
    /\ (pc \in {"encoded", "applied"} /\ wordA = wordB /\ wordA # <<>>) =>
            batch = <<>>

\* "" to "hi" has gone through the planner, the encoder and the replica
C25_Witness ==
    /\ oldText = <<>>
    /\ newText = Hi
    /\ pc = "applied"
    /\ edits = <<Edit(EditAdd, Hi)>>
    /\ batch = <<makeInsert(Hi, 0)>>
    /\ applied = Hi

(***************************************************************************)
(* C26: with A and B both empty, Diff returns an empty list: no run of any *)
(* type.                                                                   *)
(***************************************************************************)
C26_BothEmptyNoRun ==
    (pc \in {"planned", "encoded", "applied"} /\ oldText = <<>> /\ newText = <<>>) =>
        Len(edits) = 0

(***************************************************************************)
(* C27: one call of createMyRecord sends at most two createRecord requests *)
(* and at most one refreshSession request.  The first request is a         *)
(* createRecord; a refresh follows exactly when it failed; a second        *)
(* createRecord follows exactly when the refresh succeeded, and nothing    *)
(* follows it.  The call returns an error exactly when the refresh or the  *)
(* retry failed or when there was no session, and then it sent nothing.    *)
(***************************************************************************)
\* the requests of the call n, in order
RECURSIVE RequestsOf(_, _)
RequestsOf(log, n) ==
    IF log = <<>> THEN <<>>
    ELSE (IF log[1].call = n THEN <<log[1]>> ELSE <<>>) \o RequestsOf(Tail(log), n)

C27_OneRefreshOneRetry ==
    \A n \in 1..ncalls :
        LET R == RequestsOf(reqlog, n)
            running == cpc[n] # "done"
        IN  /\ Len(R) <= 3
            /\ Cardinality({i \in 1..Len(R) : R[i].kind = "createRecord"}) <= 2
            /\ Cardinality({i \in 1..Len(R) : R[i].kind = "refreshSession"}) <= 1
            /\ Cardinality({i \in 1..Len(returned) : returned[i].call = n}) <= 1
            /\ HasReturned(n) = ~running
            /\ Len(R) >= 1 => R[1].kind = "createRecord"
            /\ Len(R) >= 2 => ~R[1].ok /\ R[2].kind = "refreshSession"
            /\ Len(R) = 3 => /\ R[2].ok
                              /\ R[3].kind = "createRecord"
            /\ HasReturned(n) =>
                  /\ (Len(R) >= 1 /\ ~R[1].ok) => Len(R) >= 2
                  /\ (Len(R) >= 2 /\ R[2].ok) => Len(R) = 3
                  /\ ReturnedError(n) = (\/ Len(R) = 0
                                          \/ (Len(R) = 2 /\ ~R[2].ok)
                                          \/ (Len(R) = 3 /\ ~R[3].ok))
            /\ (HasReturned(n) /\ Len(R) = 0) =>
                  \A i \in 1..Len(reqlog) : reqlog[i].call > n

\* two calls at once: the first has failed, refreshed and succeeded on the
\* retry; the second, started later, has failed on its own refresh and has
\* returned first, with requests of the first still in flight
C27_Witness ==
    /\ ncalls = 2
    /\ \A n \in 1..ncalls : cpc[n] = "done"
    /\ Len(returned) = 2
    /\ ~ReturnedError(1)
    /\ ReturnedError(2)
    /\ Len(RequestsOf(reqlog, 1)) = 3
    /\ Len(RequestsOf(reqlog, 2)) = 2
    /\ reqlog[1].call = 1
    /\ returned[1].call = 2

(***************************************************************************)
(* C28: on connect startLRCHandlers writes the Set with the identity of    *)
(* the connect and then the Get, in that order and nothing else, and both  *)
(* WriteMessage calls have been made before the document reader reads a    *)
(* frame or forwards anything to the update loop.                          *)
(***************************************************************************)
C28_SetThenGetBeforeEvents ==
    LET H == WrittenBy(socklog, Task("handlers"))
    IN  /\ Len(H) <= 2
        /\ Len(H) >= 1 => H[1].data = SetEvent(ConnectNick)
        /\ Len(H) = 2 => H[2].data = GetEvent
        /\ rpc = "set" => Len(H) = 0
        /\ rpc = "get" => Len(H) = 1
        /\ (framesRead # <<>> \/ delivered # <<>> \/ rdErrs > 0) => Len(H) = 2

\* the reader has forwarded the echoed Init after both writes, while the
\* writer has put a Set of its own on the socket
C28_Witness ==
    /\ Len(delivered) >= 1
    /\ delivered[1].Msg.kind = "Init"
    /\ myid = Some(2)
    /\ Len(WrittenBy(socklog, Task("handlers"))) = 2
    /\ \A i \in 1..Len(socklog) : socklog[i].ok
    /\ Len(WrittenBy(socklog, Task("writer"))) = 1

(***************************************************************************)
(* C29: Diff is deterministic and its tie-break is total: every call on    *)
(* the same words returns the script the first call returned, and of any   *)
(* two distinct segments held by the frontier exactly one is lighter than  *)
(* the other.                                                              *)
(***************************************************************************)
\* every call of Diff on the words made so far has returned a script, the
\* same script
SameScriptAgain ==
    /\ scripts # <<>> => pc # "panic"
    /\ \A i \in 1..Len(scripts) : scripts[i] = scripts[1]

\* the pairs of distinct entries of h.segments
HeldPairs ==
    {<<i, j>> \in (1..Len(frontier.segments)) \X (1..Len(frontier.segments)) : i # j}

C29_TieBreakTotal ==
    /\ SameScriptAgain
    /\ \A ij \in HeldPairs :
          LET x == frontier.segments[ij[1]]
              y == frontier.segments[ij[2]]
          IN  lighter(x, y) # lighter(y, x)

\* the segments reached from the head by one Delete and by one Add
OneDelete == EditSegment(1, 1, 0, EditSegment(0, 0, 0, NilSegment))
OneAdd == EditSegment(1, 0, 1, EditSegment(0, 0, 0, NilSegment))

\* C29, amended: Diff is deterministic; the comparison never orders two
\* segments both ways, and it leaves two distinct segments unordered exactly
\* when they have the same weight and the same aidx+bidx, as it does the
\* segments reached by one Delete and by one Add.
C29_DeterministicNotTotal ==
    /\ SameScriptAgain
    /\ ~lighter(OneDelete, OneAdd) /\ ~lighter(OneAdd, OneDelete)
    /\ \A ij \in HeldPairs :
          LET x == frontier.segments[ij[1]]
              y == frontier.segments[ij[2]]
          IN  /\ <<x.aidx, x.bidx>> # <<y.aidx, y.bidx>>
              /\ ~(lighter(x, y) /\ lighter(y, x))
              /\ (~lighter(x, y) /\ ~lighter(y, x)) =
                    (x.weight = y.weight /\ x.aidx + x.bidx = y.aidx + y.bidx)

\* the second call of Diff on "ab" and "ba", the first having returned its
\* script: the frontier holds the segments at (2,0) and (1,1), both of
\* weight 2, which the comparison leaves unordered
C29_Witness ==
    /\ pc = "search"
    /\ Len(scripts) = 1
    /\ wordA = <<97, 98>>
    /\ wordB = <<98, 97>>
    /\ \E ij \in HeldPairs :
          LET x == frontier.segments[ij[1]]
              y == frontier.segments[ij[2]]
          IN  /\ <<x.aidx, x.bidx, x.weight>> = <<2, 0, 2>>
              /\ <<y.aidx, y.bidx, y.weight>> = <<1, 1, 2>>
              /\ ~lighter(x, y) /\ ~lighter(y, x)

(***************************************************************************)
(* C30: after any sequence of Add and PopFront calls the array of the heap *)
(* has the binary-heap property (no entry is lighter than its parent), and *)
(* PopFront returns a segment than which no segment held is lighter.       *)
(***************************************************************************)
HeapProperty(segs) ==
    \A idx \in 1..(Len(segs) - 1) : ~lighter(segs[idx + 1], segs[((idx - 1) \div 2) + 1])

C30_PopFrontMinimal ==
    /\ [](HeapProperty(frontier.segments))
    /\ [][(CallPopFront /\ Len(frontier.segments) > 0) =>
            \A i \in 1..Len(frontier.segments) : ~lighter(frontier.segments[i], popped')]_vars

(***************************************************************************)
(* C31                                                                     *)
(***************************************************************************)
\* the coordinates of the segments held by the frontier, in heap order
HeldCoordinates ==
    [i \in 1..Len(frontier.segments) |->
        <<frontier.segments[i].aidx, frontier.segments[i].bidx>>]

\* the number of segments popped so far: every coordinate that entered the
\* frontier is either still held or has been popped
PoppedSoFar == Cardinality(frontier.searched) - Len(frontier.segments)

\* C31: Diff terminates. Every coordinate enters the frontier at most once (no
\* coordinate is held twice, and the coordinate of a popped segment is marked
\* searched and no longer held, so Add never takes it again), at most
\* (|A|+1)*(|B|+1) segments are popped, and PopFront never returns nil inside
\* the search loop. Every iteration pops one more segment, so the loop ends
\* after at most (|A|+1)*(|B|+1) iterations, at the terminal coordinate.
C31_DiffTerminates ==
    /\ [](/\ \A i, j \in 1..Len(frontier.segments) :
                i # j => HeldCoordinates[i] # HeldCoordinates[j]
          /\ \A i \in 1..Len(frontier.segments) : HeldCoordinates[i] \in frontier.searched
          /\ frontier.searched \subseteq (0..Len(wordA)) \X (0..Len(wordB))
          /\ PoppedSoFar <= (Len(wordA) + 1) * (Len(wordB) + 1)
          /\ pc # "panic"
          /\ (pc = "search" =>
                /\ ~popped.nil
                /\ <<popped.aidx, popped.bidx>> \in frontier.searched
                /\ \A i \in 1..Len(frontier.segments) :
                      HeldCoordinates[i] # <<popped.aidx, popped.bidx>>))
    /\ [][DiffIterate => /\ PoppedSoFar' = PoppedSoFar + 1
                         /\ frontier.searched \subseteq frontier'.searched]_vars

\* a search over two words of full length has ended after expanding several
\* coordinates, some of them reached along more than one path
C31_Witness ==
    /\ pc = "planned"
    /\ Len(wordA) = MaxLen
    /\ Len(wordB) = MaxLen
    /\ wordA # wordB
    /\ PoppedSoFar > MaxLen + 1

(***************************************************************************)
(* C32                                                                     *)
(***************************************************************************)
\* C32: in the script returned by Diff for words that are not both empty,
\* every run is a Keep, an Add or a Delete with a payload that is not empty,
\* no two adjacent runs have the same type, and the payloads of the merged
\* runs are in sequence order: the Keep and Delete payloads read in order give
\* A, the Keep and Add payloads give B.
C32_RunsMerged ==
    (pc = "planned" /\ (wordA # <<>> \/ wordB # <<>>)) =>
        /\ Len(edits) >= 1
        /\ \A i \in 1..Len(edits) :
              /\ edits[i].EditType \in {EditKeep, EditAdd, EditDel}
              /\ Len(edits[i].Utf16Text) >= 1
        /\ \A i \in 1..(Len(edits) - 1) : edits[i].EditType # edits[i + 1].EditType
        /\ Payload(edits, {EditKeep, EditDel}) = wordA
        /\ Payload(edits, {EditKeep, EditAdd}) = wordB

\* a script of several runs, one of them merged from two different units
C32_Witness ==
    /\ pc = "planned"
    /\ Len(edits) >= 3
    /\ \E i \in 1..Len(edits) :
          /\ Len(edits[i].Utf16Text) >= 2
          /\ edits[i].Utf16Text[1] # edits[i].Utf16Text[2]

(***************************************************************************)
(* C33                                                                     *)
(***************************************************************************)
\* the event is an Init that carries echoed = true
EchoedInit(e) == e.Msg.kind = "Init" /\ e.Msg.Echoed = Some(TRUE)

\* C33: an inbound document event changes myid only if it is an Init with
\* echoed = true, and myid is then the id of that Init; an echoed Init that
\* is handled without error always leaves myid equal to its id.  Inits with
\* echoed absent or false, and Insert, Delete, Pub and Editbatch events,
\* leave myid unchanged, and no document event changes signeturi.
C33_MyidFromEchoOnly ==
    [][\A e \in InboundEvents :
          LrcEvent(e) =>
              /\ signeturi' = signeturi
              /\ (myid' # myid => (EchoedInit(e) /\ myid' = e.Msg.Id))
              /\ (EchoedInit(e) /\ state' = "Connected") => myid' = e.Msg.Id
              /\ ~EchoedInit(e) => myid' = myid]_vars

\* both ids have been echoed in turn, the signet of the first one is still
\* held, and the store holds text and a published message
C33_Witness ==
    /\ state = "Connected"
    /\ echoSeen = Ids
    /\ myid = Some(5)
    /\ svSeen = {2}
    /\ signeturi # None
    /\ \E h \in 1..Len(objs) : objs[h].text # <<>>
    /\ \E h \in 1..Len(objs) : ~objs[h].active

(***************************************************************************)
(* C34                                                                     *)
(***************************************************************************)
\* C34: once gsd.state is Error, no later message changes the document
\* store, the display order, myid, signeturi or the state.
C34_ErrorIsTerminal ==
    [][state = "Error" => UNCHANGED <<msgs, objs, render, myid, signeturi, state>>]_vars

(***************************************************************************)
(* C35                                                                     *)
(***************************************************************************)
\* C35: the events of a locally composed message reach the document socket in
\* the order the update loop produced them.  An edit batch is written only
\* after the Init and the Insert of the message have been written, and a
\* batch is handed to the writer only when no command produced before it is
\* still on its way.
C35_WrittenInProductionOrder ==
    /\ [](\A i \in 1..Len(socklog) :
            (socklog[i].data.Msg.kind = "Editbatch" /\ socklog[i].ok) =>
                \E j, k \in 1..(i - 1) :
                    /\ j < k
                    /\ socklog[j].data.Msg.kind = "Init" /\ socklog[j].ok
                    /\ socklog[k].data.Msg.kind = "Insert" /\ socklog[k].ok)
    /\ [][\A p \in procs : WriterRecvCmd(p) => \A q \in procs : q.n >= p.n]_vars

(***************************************************************************)
(* C36                                                                     *)
(***************************************************************************)
\* the goroutines whose next statement is a conn.WriteMessage on the document
\* socket: startLRCHandlers at its Set or Get, LRCWriter with a payload in
\* hand, a sendInsert goroutine at its Init or its Insert, a sendPub
\* goroutine at its Pub
AtWriteMessage ==
    (IF rpc \in {"set", "get"} THEN {Task("handlers")} ELSE {})
        \cup (IF wpc = "write" THEN {Task("writer")} ELSE {})
        \cup {Goroutine(p.n) : p \in {q \in procs : q.pc \in {"init", "insert", "pub"}}}

\* C36: at most one goroutine is writing to the document socket at any time.
C36_OneSocketWriter == Cardinality(AtWriteMessage) <= 1

(***************************************************************************)
(* C37                                                                     *)
(***************************************************************************)
\* the events reached the server in the order the composer produced them:
\* Init, Insert, then the edit batch (the log does not tell two batches
\* apart, so runs with more than one are left out)
InProductionOrder ==
    LET W == Written(socklog)
    IN  /\ Cardinality({i \in 1..Len(W) : W[i].Msg.kind = "Editbatch"}) <= 1
        /\ \A i \in 1..Len(W) :
              /\ W[i].Msg.kind = "Insert" => \E j \in 1..(i - 1) : W[j].Msg.kind = "Init"
              /\ W[i].Msg.kind = "Editbatch" => \E j \in 1..(i - 1) : W[j].Msg.kind = "Insert"

\* C37: a replica that has applied, in production order and under one id,
\* the Init, the Insert and the edit batches produced for a local message
\* holds the sender's sentmsg as the text of that message: when every
\* command has run, every write has succeeded and the replica has received
\* all that was written.
C37_ReplicaConverges ==
    (/\ state = "Connected"
     /\ sentmsg # None
     /\ procs = {}
     /\ wpc = "recv"
     /\ ~wrFailed
     /\ Len(delivered) = Len(Written(socklog))
     /\ InProductionOrder) =>
        /\ peerState = "Connected"
        /\ msgs[ReplicaId] # 0
        /\ objs[msgs[ReplicaId]].text = sentmsg[1]

\* the goroutine that carries the Init of the message in progress: the last
\* sendInsert command with init set
CurrentInit ==
    LET ns == {p.n : p \in {q \in procs : q.pc \in {"init", "insert"} /\ q.cmd.Init}}
                  \cup {socklog[i].by.n :
                          i \in {j \in 1..Len(socklog) : socklog[j].data.Msg.kind = "Init"}}
    IN  IF ns = {} THEN 0 ELSE CHOOSE n \in ns : \A m \in ns : m <= n

\* the place of that Init among the Inits that have reached the server, 0
\* when it has not reached it
CurrentRank ==
    LET oks == {j \in 1..Len(socklog) : socklog[j].data.Msg.kind = "Init" /\ socklog[j].ok}
        mine == {j \in oks : socklog[j].by.n = CurrentInit}
    IN  IF mine = {} THEN 0
        ELSE Cardinality({j \in oks : j <= CHOOSE x \in mine : TRUE})

(***************************************************************************)
(* C38                                                                     *)
(***************************************************************************)
\* C38: a record-creation request carries the signet URI that a signetView
\* reported for the id the server gave the message being published, never
\* the signet of an earlier message.
C38_SignetOfPublishedMessage ==
    [][\A c \in cmds' :
          (c.cmd = "createMSGCmd" /\ sentmsg # None /\ sentmsg' = None) =>
              \E i \in 1..Len(viewsRead) :
                  /\ CurrentRank > 0
                  /\ viewsRead[i] = [LrcId |-> ServerId(CurrentRank), URI |-> c.SignetURI]]_vars

(***************************************************************************)
(* C39                                                                     *)
(***************************************************************************)
\* C39: after every step of the update loop in the Connected state, sentmsg,
\* when set, equals the value of the draft, and the draft is empty when no
\* message is in progress.
C39_SentmsgIsDraft ==
    state = "Connected" =>
        /\ sentmsg # None => sentmsg[1] = draft
        /\ sentmsg = None => draft = <<>>

\* a second message is in progress, two runes typed, after a first one was
\* published with its signet
C39_Witness ==
    /\ state = "Connected"
    /\ mode = "Insert"
    /\ sentmsg = Some(<<97, 97>>)
    /\ draft = <<97, 97>>
    /\ xrpc
    /\ myid # None
    /\ echoSeen = {}

(***************************************************************************)
(* Dialing a server from the command prompt: ":dial <url>", the            *)
(* dialingChannel command in its goroutine, and the delivery of its result *)
(* to model.Update.                                                        *)
(***************************************************************************)
MaxDials == 2      \* dial commands given in one run

\* the urls typed after ":dial" (as bytes): "x" and "xy"
DialURLs == {<<120>>, <<120, 121>>}

\* a dialingChannel command: running, its message queued for the update
\* loop, or its message handled by model.Update in the state `at`
DialRunning == [st |-> "running", ok |-> FALSE, at |-> "-"]
DialQueued(ok) == [st |-> "queued", ok |-> ok, at |-> "-"]
DialHandled(ok, at) == [st |-> "handled", ok |-> ok, at |-> at]

\* initialModel 203-220: the Splash state, no channelmodel
InitSplash ==
    /\ state = "Splash"
    /\ mode = "Normal"
    /\ msgs = [i \in Ids |-> 0]
    /\ objs = <<>>
    /\ render = <<>>
    /\ myid = None
    /\ signeturi = None
    /\ sentmsg = None
    /\ draft = <<>>
    /\ xrpc = FALSE
    /\ cmds = {}
    /\ echoSeen = {}
    /\ svSeen = {}

\* the program as started
InitDial ==
    /\ InitSplash
    /\ IdlePipeline /\ IdleText /\ InitTasks /\ InitClient /\ InitHeap
    /\ InitViews

\* updateSplash 225-237: a key in the Splash state, other than "q" (and than
\* ctrl+c and ":", which model.Update takes before, 298-311)
SplashKey ==
    /\ state = "Splash"
    /\ state' = "GettingChannels"
    /\ cmds' = {[cmd |-> "GetChannels"]}
    /\ nav' = [nav EXCEPT !["GetChannels"] = "running"]
    /\ UNCHANGED <<mode, msgs, objs, render, myid, signeturi, sentmsg, draft, xrpc,
                   echoSeen, svSeen, viewsRead, dials, peerState>>
    /\ UNCHANGED <<pvars, tvars, cvars, rvars, hvars>>

\* updateChannelList 1207-1234: "enter" on the list; with a channel selected
\* whose uri has a record key the channel is resolved, else the error makes
\* model.Update (428-433) set the Error state
ChannelListEnter(ok) ==
    /\ state = "ChannelList"
    /\ IF ok
       THEN /\ state' = "ResolvingChannel"
            /\ cmds' = {[cmd |-> "ResolveChannel"]}
            /\ nav' = [nav EXCEPT !["ResolveChannel"] = "running"]
       ELSE /\ state' = "Error"
            /\ cmds' = {}
            /\ UNCHANGED nav
    /\ UNCHANGED <<mode, msgs, objs, render, myid, signeturi, sentmsg, draft, xrpc,
                   echoSeen, svSeen, viewsRead, dials, peerState>>
    /\ UNCHANGED <<pvars, tvars, cvars, rvars, hvars>>

\* GetChannels 239-257, ResolveChannel 1236-1254, connectToChannel 1144-1165:
\* the command returns its message, or errMsg when a request or a dial failed
NavReturn(c, ok) ==
    /\ nav[c] = "running"
    /\ nav' = [nav EXCEPT ![c] = IF ok THEN "ok" ELSE "err"]
    /\ UNCHANGED <<pvars, evars, tvars, cvars, rvars, hvars, viewsRead, dials, peerState>>

\* ":dial <url>" was entered at the command prompt and evaluateCommand
\* (730-733) has returned dialMsg; model.Update, case dialMsg (342-346), in
\* whatever state and mode it finds: the dial starts when len(msg.value) is 1
CommandDial(url) ==
    /\ Len(dials) < MaxDials
    /\ IF Len(url) = 1
       THEN /\ state' = "DialingChannel"
            /\ dials' = Append(dials, DialRunning)
            /\ cmds' = {[cmd |-> "dialingChannel", url |-> url]}
       ELSE /\ cmds' = {}
            /\ UNCHANGED <<state, dials>>
    /\ UNCHANGED <<peerState, nav>>
    /\ UNCHANGED <<mode, msgs, objs, render, myid, signeturi, sentmsg, draft, xrpc,
                   echoSeen, svSeen, viewsRead>>
    /\ UNCHANGED <<pvars, tvars, cvars, rvars, hvars>>

\* dialingChannel 1125-1137: DialContext returns; the command returns
\* connSimpleMsg, or errMsg when the dial failed
DialReturn(i, ok) ==
    /\ i \in 1..Len(dials)
    /\ dials[i] = DialRunning
    /\ dials' = [dials EXCEPT ![i] = DialQueued(ok)]
    /\ UNCHANGED <<pvars, evars, tvars, cvars, rvars, hvars, viewsRead, peerState, nav>>

\* model.Update on a message that no case takes in the state it finds: the
\* first switch (297-421) passes it on; the dispatch on gsd.state (423-455)
\* has an empty case for DialingChannel, none for Error, the handlers of the
\* states before Connected return the model as it is, and updateConnected
\* hands it to the mode dispatch (589-612)
HandleUnmatchedMsg ==
    /\ IF state = "Connected" /\ mode = "Insert"
       THEN sentmsg' = InsertTail(draft).sentmsg /\ cmds' = InsertTail(draft).cmds
       ELSE sentmsg' = sentmsg /\ cmds' = {}
    /\ UNCHANGED <<state, mode, msgs, objs, render, myid, signeturi, draft, xrpc,
                   echoSeen, svSeen>>

\* model.Update on connSimpleMsg: updateDialingChannel (968-989) is called
\* from nowhere, so no case takes it in any state
HandleConnSimpleMsg == HandleUnmatchedMsg

\* updateGettingChannels 1179-1197: channelsMsg
HandleChannelsMsg ==
    IF state = "GettingChannels"
    THEN /\ state' = "ChannelList"
         /\ cmds' = {}
         /\ UNCHANGED <<mode, msgs, objs, render, myid, signeturi, sentmsg, draft, xrpc,
                        echoSeen, svSeen>>
    ELSE HandleUnmatchedMsg

\* updateResolvingChannel 1109-1123: resolutionMsg
HandleResolutionMsg ==
    IF state = "ResolvingChannel"
    THEN /\ state' = "ConnectingToChannel"
         /\ cmds' = {[cmd |-> "connectToChannel"]}
         /\ UNCHANGED <<mode, msgs, objs, render, myid, signeturi, sentmsg, draft, xrpc,
                        echoSeen, svSeen>>
    ELSE HandleUnmatchedMsg

\* updateConnectingToChannel 938-966: connMsg; a new channelmodel
HandleConnMsg ==
    IF state = "ConnectingToChannel"
    THEN /\ state' = "Connected"
         /\ mode' = "Normal"
         /\ msgs' = [i \in Ids |-> 0]
         /\ objs' = <<>>
         /\ render' = <<>>
         /\ myid' = None
         /\ signeturi' = None
         /\ sentmsg' = None
         /\ draft' = <<>>
         /\ cmds' = {}
         /\ UNCHANGED <<xrpc, echoSeen, svSeen>>
    ELSE HandleUnmatchedMsg

\* the message of a navigation command reaches model.Update
DeliverNav(c) ==
    /\ nav[c] \in {"ok", "err"}
    /\ IF nav[c] = "err" THEN HandleErrMsg
       ELSE IF c = "GetChannels" THEN HandleChannelsMsg
       ELSE IF c = "ResolveChannel" THEN HandleResolutionMsg
       ELSE HandleConnMsg
    /\ nav' = IF c = "ResolveChannel" /\ nav[c] = "ok" /\ state = "ResolvingChannel"
              THEN [nav EXCEPT ![c] = "handled", !["connectToChannel"] = "running"]
              ELSE [nav EXCEPT ![c] = "handled"]
    /\ UNCHANGED <<pvars, tvars, cvars, rvars, hvars, viewsRead, dials, peerState>>

\* the message of a dial command reaches model.Update
DeliverDial(i) ==
    /\ i \in 1..Len(dials)
    /\ dials[i].st = "queued"
    /\ IF dials[i].ok THEN HandleConnSimpleMsg ELSE HandleErrMsg
    /\ dials' = [dials EXCEPT ![i] = DialHandled(dials[i].ok, state)]
    /\ UNCHANGED <<pvars, tvars, cvars, rvars, hvars, viewsRead, peerState, nav>>

\* the steps the program takes without waiting for the user
DialStep ==
    \/ \E i \in 1..MaxDials : \E ok \in BOOLEAN : DialReturn(i, ok)
    \/ \E i \in 1..MaxDials : DeliverDial(i)
    \/ \E c \in NavCmds : \E ok \in BOOLEAN : NavReturn(c, ok)
    \/ \E c \in NavCmds : DeliverNav(c)

NextDial ==
    \/ \E url \in DialURLs : CommandDial(url)
    \/ \E i \in 1..MaxDials : \E ok \in BOOLEAN : DialReturn(i, ok)
    \/ \E i \in 1..MaxDials : DeliverDial(i)
    \/ SplashKey
    \/ \E ok \in BOOLEAN : ChannelListEnter(ok)
    \/ \E c \in NavCmds : \E ok \in BOOLEAN : NavReturn(c, ok)
    \/ \E c \in NavCmds : DeliverNav(c)
    \/ KeyInsertMode
    \/ KeyEsc
    \/ LoggedInMsg
    \/ ErrMsg

SpecDial == InitDial /\ [][NextDial]_vars

\* every command returns and every message of a command is delivered
SpecDialFair == SpecDial /\ WF_vars(DialStep)

(***************************************************************************)
(* C40                                                                     *)
(***************************************************************************)
\* the store of a channelmodel just made (updateDialingChannel 973-976)
FreshStore ==
    /\ msgs = [i \in Ids |-> 0]
    /\ render = <<>>

\* the socket dial of command i has succeeded and its connSimpleMsg is on
\* its way to the update loop
ConnQueued(i) ==
    /\ i <= Len(dials)
    /\ dials[i] = DialQueued(TRUE)

\* the connSimpleMsg of command i was handled in another state than
\* DialingChannel
ConnHandledElsewhere(i) ==
    /\ i <= Len(dials)
    /\ dials[i].st = "handled"
    /\ dials[i].at # "DialingChannel"

\* C40: the result of a successful dial, delivered while the state is
\* DialingChannel, is followed by the Connected state with an empty document
\* store; the state does not stay DialingChannel for ever.
C40_DialReachesConnected ==
    \A i \in 1..MaxDials :
        ConnQueued(i) ~> \/ state = "Connected" /\ FreshStore
                         \/ ConnHandledElsewhere(i)

====
